---- MODULE Spec2Model ----
(***************************************************************************)
(* Model of script.js (Sports Match Analyzer, "Model V1").                 *)
(*                                                                         *)
(* The program is a single-threaded browser script: every event handler    *)
(* runs to completion, so every handler is one atomic action.              *)
(*                                                                         *)
(* Conventions                                                             *)
(*  - A text field holding a comma separated score list is the sequence of *)
(*    its comma separated tokens; the trimmed empty text is <<>>.          *)
(*  - null is None (the empty sequence), a non-null value v is Some(v).    *)
(*  - Betting lines are decimal numbers kept in tenths (1.5 is 15).        *)
(*  - Date.now() is kept in seconds instead of milliseconds; the clock     *)
(*    never runs backwards.                                                *)
(***************************************************************************)
EXTENDS Integers, Sequences, FiniteSets, TLC

VARIABLES
    matchData,            \* script.js:2   the three record sequences
    team1Name,            \* script.js:9
    team2Name,            \* script.js:10
    team1Ranking,         \* script.js:11
    team2Ranking,         \* script.js:12
    matchImportance,      \* script.js:13  in tenths
    matchLocation,        \* script.js:14
    totalLine,            \* script.js:17  in tenths
    pointSpread,          \* script.js:18  in tenths
    spreadDirection,      \* script.js:19
    lastAnalysisResults,  \* script.js:28
    lineForm,             \* the betting-line, point-spread and spread-direction fields
    now,                  \* the value the next Date.now() returns at least
    last,                 \* history: the handler that ran last and how it ended
    ingested,             \* history: per category, the lists of its last successful add
    steps,                \* number of handler runs so far
    features,             \* input of the pure model functions under SpecProb
    probs,                \* their output under SpecProb
    args,                 \* the arguments of the pure function a specification applies
    result,               \* the value it returned
    bettingPanel          \* what updateBettingRecommendation last showed

vars == <<matchData, team1Name, team2Name, team1Ranking, team2Ranking,
          matchImportance, matchLocation, totalLine, pointSpread,
          spreadDirection, lastAnalysisResults, lineForm, now, last,
          ingested, steps, features, probs, args, result, bettingPanel>>

-----------------------------------------------------------------------------
(* Bounds *)

MaxLen == 3
MaxSteps == 3
MaxTicks == 1
ClockStart == 1700000000

-----------------------------------------------------------------------------
(* Values *)

None == <<>>
Some(x) == <<x>>

Categories == {"h2h", "team1", "team2"}

Min(a, b) == IF a < b THEN a ELSE b
Max(a, b) == IF a > b THEN a ELSE b
Abs(a) == IF a < 0 THEN -a ELSE a

\* The tokens a user types between the commas of a score field.
Tokens == {"0", "1", "x", "-1"}

\* Every score text of at most MaxLen tokens.
ScoreTexts == UNION {[1..n -> Tokens] : n \in 0..MaxLen}

\* parseInt(token.trim()): a number, or NaN.
ParseInt(tok) ==
    CASE tok = "0"  -> [nan |-> FALSE, v |-> 0]
      [] tok = "1"  -> [nan |-> FALSE, v |-> 1]
      [] tok = "2"  -> [nan |-> FALSE, v |-> 2]
      [] tok = "3"  -> [nan |-> FALSE, v |-> 3]
      [] tok = "4"  -> [nan |-> FALSE, v |-> 4]
      [] tok = "5"  -> [nan |-> FALSE, v |-> 5]
      [] tok = "-1" -> [nan |-> FALSE, v |-> -1]
      [] OTHER      -> [nan |-> TRUE,  v |-> 0]

\* text.split(',').map(score => parseInt(score.trim()))
ParseScores(text) == [i \in 1..Len(text) |-> ParseInt(text[i])]

WEEK == 7 * 24 * 60 * 60
DAY == 24 * 60 * 60

-----------------------------------------------------------------------------
(* validateScores *)

ValidateScores(scores1, scores2) ==
    IF (\E i \in 1..Len(scores1) : scores1[i].nan)
       \/ (\E i \in 1..Len(scores2) : scores2[i].nan)
    THEN FALSE
    ELSE IF (\E i \in 1..Len(scores1) : scores1[i].v < 0)
            \/ (\E i \in 1..Len(scores2) : scores2[i].v < 0)
    THEN FALSE
    ELSE IF Len(scores1) = 0 \/ Len(scores2) = 0
    THEN FALSE
    ELSE TRUE

-----------------------------------------------------------------------------
(* calculateSpreadCover, under a given configuration *)

CalculateSpreadCover(team1Score, team2Score, spread, direction) ==
    IF spread <= 0 THEN None
    ELSE LET adjustedScore == IF direction = "team1"
                              THEN team1Score * 10 - spread
                              ELSE team2Score * 10 - spread
             opposingScore == IF direction = "team1"
                              THEN team2Score * 10 ELSE team1Score * 10
         IN  IF adjustedScore > opposingScore THEN Some("Favorite Covered")
             ELSE IF adjustedScore < opposingScore THEN Some("Underdog Covered")
             ELSE Some("Push")

TotalOverLine(totalScore, line) ==
    IF line > 0 THEN Some(totalScore * 10 > line) ELSE None

SpreadCoverOf(team1Score, team2Score, spread, direction) ==
    IF spread > 0 THEN CalculateSpreadCover(team1Score, team2Score, spread, direction)
    ELSE None

-----------------------------------------------------------------------------
(* processMatchScore *)

RECURSIVE InsertByTimestamp(_, _)
\* Insert r after every record whose timestamp is not larger (a stable sort).
InsertByTimestamp(sorted, r) ==
    IF sorted = <<>> THEN <<r>>
    ELSE IF Head(sorted).timestamp <= r.timestamp
         THEN <<Head(sorted)>> \o InsertByTimestamp(Tail(sorted), r)
         ELSE <<r>> \o sorted

RECURSIVE SortByTimestamp(_)
\* array.sort((a, b) => a.timestamp - b.timestamp), oldest first, stable.
SortByTimestamp(s) ==
    IF s = <<>> THEN <<>>
    ELSE InsertByTimestamp(SortByTimestamp(SubSeq(s, 1, Len(s) - 1)), s[Len(s)])

\* The globals processMatchScore and the analysis read.
Config == [ team1Name       |-> team1Name,
            team2Name       |-> team2Name,
            team1Ranking    |-> team1Ranking,
            team2Ranking    |-> team2Ranking,
            matchImportance |-> matchImportance,
            matchLocation   |-> matchLocation,
            totalLine       |-> totalLine,
            pointSpread     |-> pointSpread,
            spreadDirection |-> spreadDirection ]

\* A labelling that never records a loss of team 1: C21 must not hold of it.
OutcomeLabelWithoutLoss(category, team1Score, team2Score, cfg) ==
    IF team1Score > team2Score THEN cfg.team1Name \o " Wins" ELSE "Draw"

OutcomeLabel(category, team1Score, team2Score, cfg) ==
    IF category = "h2h" THEN
        IF team1Score = team2Score THEN "Draw"
        ELSE IF team1Score > team2Score THEN cfg.team1Name \o " Wins"
        ELSE cfg.team2Name \o " Wins"
    ELSE IF category = "team1" THEN
        IF team1Score = team2Score THEN "Draw"
        ELSE IF team1Score > team2Score THEN cfg.team1Name \o " Wins"
        ELSE "Opponent Wins"
    ELSE
        IF team1Score = team2Score THEN "Draw"
        ELSE IF team1Score > team2Score THEN "Opponent Wins"
        ELSE cfg.team2Name \o " Wins"

\* The slot mapping: which of (score1, score2) is team1Score.
Team1Slot(category, score1, score2) == IF category = "team2" THEN score2 ELSE score1
Team2Slot(category, score1, score2) == IF category = "team2" THEN score1 ELSE score2

\* The record processMatchScore pushes; clock is what Date.now() returns.
NewRecord(list, category, matchNumber, score1, score2, timestamp, clock, cfg) ==
    LET totalScore == score1 + score2
        team1Score == Team1Slot(category, score1, score2)
        team2Score == Team2Slot(category, score1, score2)
    IN  [ matchNumber     |-> matchNumber,
          team1Score      |-> team1Score,
          team2Score      |-> team2Score,
          totalScore      |-> totalScore,
          outcome         |-> OutcomeLabel(category, team1Score, team2Score, cfg),
          category        |-> category,
          totalOverLine   |-> TotalOverLine(totalScore, cfg.totalLine),
          spreadCover     |-> SpreadCoverOf(team1Score, team2Score,
                                            cfg.pointSpread, cfg.spreadDirection),
          marginOfVictory |-> Abs(team1Score - team2Score),
          \* a fraction num/den: max/total, or 1/2 when no goal was scored
          goalEfficiency  |-> IF totalScore > 0
                              THEN <<Max(team1Score, team2Score), totalScore>>
                              ELSE <<1, 2>>,
          cleanSheet      |-> (team1Score = 0 \/ team2Score = 0),
          timestamp       |-> IF timestamp # 0 THEN timestamp
                              ELSE clock - Len(list) * DAY ]

ProcessMatchScore(list, category, matchNumber, score1, score2, timestamp, clock, cfg) ==
    SortByTimestamp(Append(list,
        NewRecord(list, category, matchNumber, score1, score2, timestamp, clock, cfg)))

-----------------------------------------------------------------------------
(* handleH2HAdd, handleTeam1Add, handleTeam2Add *)

\* What the i-th Date.now() of an add loop returns when the clock advances by
\* one right before call number tickAt (never, when tickAt exceeds the calls).
DateNow(i, tickAt) == IF i >= tickAt THEN now + 1 ELSE now

\* A loop that dates its first match newest: C8 must not hold of it.
LoopTimestampNewestFirst(i, minLength, clock) == clock - (i * WEEK)

\* The timestamp of loop iteration i (0-based) of minLength iterations.
LoopTimestamp(i, minLength, clock) == clock - ((minLength - i) * WEEK)

RECURSIVE AddLoop(_, _, _, _, _, _, _)
\* The list after iterations 0 .. upto-1 of the add loop, started on `list`.
AddLoop(list, category, scores1, scores2, upto, tickAt, cfg) ==
    IF upto = 0 THEN list
    ELSE LET minLength == Min(Len(scores1), Len(scores2))
             i == upto - 1
             clock == DateNow(i + 1, tickAt)
         IN  ProcessMatchScore(
                 AddLoop(list, category, scores1, scores2, upto - 1, tickAt, cfg),
                 category, i + 1, scores1[i + 1].v, scores2[i + 1].v,
                 LoopTimestamp(i, minLength, clock), clock, cfg)

\* A handler that appends to the old records: C1 must not hold of it.
KeptList(old) == old

\* The list the loop starts on: the handler clears the category first.
ClearedList(old) == <<>>

\* A handler that clears the category before validating: C2 must not hold of it.
AddResultClearsFirst(old, category, text1, text2, tickAt, cfg) ==
    IF text1 = <<>> \/ text2 = <<>> THEN old
    ELSE LET scores1 == ParseScores(text1)
             scores2 == ParseScores(text2)
         IN  IF ~ValidateScores(scores1, scores2) THEN ClearedList(old)
             ELSE AddLoop(ClearedList(old), category, scores1, scores2,
                          Min(Len(scores1), Len(scores2)), tickAt, cfg)

\* The category's sequence after the handler ran on the two texts.
AddResult(old, category, text1, text2, tickAt, cfg) ==
    IF text1 = <<>> \/ text2 = <<>> THEN old
    ELSE LET scores1 == ParseScores(text1)
             scores2 == ParseScores(text2)
         IN  IF ~ValidateScores(scores1, scores2) THEN old
             ELSE AddLoop(ClearedList(old), category, scores1, scores2,
                          Min(Len(scores1), Len(scores2)), tickAt, cfg)

\* Whether the handler accepts the two texts (it reaches its success toast).
AddAccepted(text1, text2) ==
    /\ text1 # <<>>
    /\ text2 # <<>>
    /\ ~(\E i \in 1..Len(text1) : ParseInt(text1[i]).nan \/ ParseInt(text1[i]).v < 0)
    /\ ~(\E i \in 1..Len(text2) : ParseInt(text2[i]).nan \/ ParseInt(text2[i]).v < 0)

\* The toast the handler ends with.
AddToast(text1, text2) ==
    LET scores1 == ParseScores(text1)
        scores2 == ParseScores(text2)
    IN  IF text1 = <<>> \/ text2 = <<>> THEN "Please enter scores for both teams"
        ELSE IF (\E i \in 1..Len(scores1) : scores1[i].nan)
                \/ (\E i \in 1..Len(scores2) : scores2[i].nan)
        THEN "Please enter valid scores (numbers only)"
        ELSE IF (\E i \in 1..Len(scores1) : scores1[i].v < 0)
                \/ (\E i \in 1..Len(scores2) : scores2[i].v < 0)
        THEN "Scores must be non-negative"
        ELSE "Added"

\* A count of the first list's entries: C6 must not hold of it.
AddedCountOfFirstList(text1, text2) == Len(text1)

\* The add handlers' addedCount: one per loop iteration.
AddedCount(text1, text2) == Min(Len(text1), Len(text2))

\* The score texts the add handlers are run on in the state machine.
SampleTexts ==
    { <<<<>>, <<"1">>>>,                   \* one field left empty
      <<<<"x">>, <<"1">>>>,                \* not a number
      <<<<"1">>, <<"-1">>>>,               \* a negative score
      <<<<"1", "0">>, <<"0">>>>,           \* unequal lengths
      <<<<"0", "2">>, <<"1", "1">>>> }     \* two matches

\* One add handler run on the texts of its two fields.
HandleAdd(category, text1, text2, tickAt) ==
    LET accepted == AddAccepted(text1, text2)
        minLength == Min(Len(text1), Len(text2))
        ticked == accepted /\ tickAt <= minLength
    IN  /\ ticked => now < ClockStart + MaxTicks
        /\ ~accepted => tickAt = 1
        /\ matchData' = [matchData EXCEPT ![category] =
               AddResult(matchData[category], category, text1, text2,
                         IF accepted THEN tickAt ELSE minLength + 1, Config)]
        /\ now' = IF ticked THEN now + 1 ELSE now
        /\ last' = [op |-> "add", cat |-> category,
                    outcome |-> IF accepted THEN "ok" ELSE "rejected",
                    added |-> IF accepted THEN AddedCount(text1, text2) ELSE 0,
                    before |-> Len(matchData[category]), streak |-> 0,
                    toast |-> AddToast(text1, text2)]
        /\ ingested' = IF accepted
                       THEN [ingested EXCEPT ![category] =
                                <<ParseScores(text1), ParseScores(text2)>>]
                       ELSE ingested
        /\ UNCHANGED <<team1Name, team2Name, team1Ranking, team2Ranking,
                       matchImportance, matchLocation, totalLine, pointSpread,
                       spreadDirection, lastAnalysisResults, lineForm,
                       features, probs, args, result, bettingPanel>>

AddClick(category) ==
    /\ steps < MaxSteps
    /\ steps' = steps + 1
    /\ \E t \in SampleTexts :
       \E tickAt \in 1..(Min(Len(t[1]), Len(t[2])) + 1) :
          HandleAdd(category, t[1], t[2], tickAt)

HandleH2HAdd == AddClick("h2h")
HandleTeam1Add == AddClick("team1")
HandleTeam2Add == AddClick("team2")

-----------------------------------------------------------------------------
(* getTotalMatchCount, clearAllData *)

GetTotalMatchCount(data) == Len(data["h2h"]) + Len(data["team1"]) + Len(data["team2"])

\* A reset that empties the head-to-head sequence only: C20 must not hold of it.
ClearedH2HOnly(data, confirmed) ==
    IF GetTotalMatchCount(data) > 0 /\ ~confirmed THEN data
    ELSE [data EXCEPT !["h2h"] = <<>>]

\* The store after clearAllData; confirmed is the user's answer to confirm().
ClearedData(data, confirmed) ==
    IF GetTotalMatchCount(data) > 0 /\ ~confirmed THEN data
    ELSE [c \in Categories |-> <<>>]

ClearAllData ==
    /\ steps < MaxSteps
    /\ steps' = steps + 1
    /\ \E confirmed \in BOOLEAN :
          LET cleared == ~(GetTotalMatchCount(matchData) > 0 /\ ~confirmed)
          IN  /\ (GetTotalMatchCount(matchData) = 0) => confirmed
              /\ matchData' = ClearedData(matchData, confirmed)
              /\ ingested' = IF cleared THEN [c \in Categories |-> <<>>] ELSE ingested
              /\ last' = [op |-> "clear", cat |-> "none",
                          outcome |-> IF cleared THEN "ok" ELSE "declined",
                          added |-> 0, before |-> GetTotalMatchCount(matchData),
                          streak |-> 0,
                          toast |-> IF cleared THEN "All match data has been cleared"
                                    ELSE ""]
    /\ UNCHANGED <<team1Name, team2Name, team1Ranking, team2Ranking,
                   matchImportance, matchLocation, totalLine, pointSpread,
                   spreadDirection, lastAnalysisResults, lineForm, now,
                   features, probs, args, result, bettingPanel>>

-----------------------------------------------------------------------------
(* handleTeamSetup: runs on every input event of the team form, which changes
   one field; the other fields are read back as they were. *)

\* value || fallback, for a text value.
OrDefault(value, fallback) == IF value = "" THEN fallback ELSE value

\* The values typed into the two name fields.
Team1NameTexts == {"", " ", "Opponent", "Team 2 "}
Team2NameTexts == {"Opponent"}
\* parseInt(value) || 0 of the ranking fields, parseFloat(value) || 1 of the
\* importance field (in tenths), and the location options.
RankingValues == {4}
ImportanceValues == {15}
Locations == {"home"}

HandleTeamSetup ==
    /\ steps < MaxSteps
    /\ steps' = steps + 1
    /\ \/ \E v \in Team1NameTexts :
            /\ team1Name' = OrDefault(v, "Team 1")
            /\ UNCHANGED <<team2Name, team1Ranking, team2Ranking,
                           matchImportance, matchLocation>>
       \/ \E v \in Team2NameTexts :
            /\ team2Name' = OrDefault(v, "Team 2")
            /\ UNCHANGED <<team1Name, team1Ranking, team2Ranking,
                           matchImportance, matchLocation>>
       \/ \E v \in RankingValues :
            /\ team1Ranking' = v
            /\ UNCHANGED <<team1Name, team2Name, team2Ranking,
                           matchImportance, matchLocation>>
       \/ \E v \in RankingValues :
            /\ team2Ranking' = v
            /\ UNCHANGED <<team1Name, team2Name, team1Ranking,
                           matchImportance, matchLocation>>
       \/ \E v \in ImportanceValues :
            /\ matchImportance' = v
            /\ UNCHANGED <<team1Name, team2Name, team1Ranking, team2Ranking,
                           matchLocation>>
       \/ \E v \in Locations :
            /\ matchLocation' = v
            /\ UNCHANGED <<team1Name, team2Name, team1Ranking, team2Ranking,
                           matchImportance>>
    /\ last' = [op |-> "setup", cat |-> "none", outcome |-> "ok", added |-> 0,
                before |-> 0, streak |-> 0, toast |-> ""]
    /\ UNCHANGED <<matchData, totalLine, pointSpread, spreadDirection,
                   lastAnalysisResults, lineForm, now, ingested, features, probs, args, result, bettingPanel>>

-----------------------------------------------------------------------------
(* The betting-line fields: the user edits them, no handler runs. *)

BettingLineTexts == {"", "1.5"}
PointSpreadTexts == {"", "0.5"}
SpreadDirections == {"team1", "team2"}

EditLineForm ==
    /\ steps < MaxSteps
    /\ steps' = steps + 1
    /\ \/ \E v \in BettingLineTexts : lineForm' = [lineForm EXCEPT !.bettingLine = v]
       \/ \E v \in PointSpreadTexts : lineForm' = [lineForm EXCEPT !.pointSpread = v]
       \/ \E v \in SpreadDirections : lineForm' = [lineForm EXCEPT !.spreadDirection = v]
    /\ lineForm' # lineForm
    /\ last' = [op |-> "editLines", cat |-> "none", outcome |-> "ok", added |-> 0,
                before |-> 0, streak |-> 0, toast |-> ""]
    /\ UNCHANGED <<matchData, team1Name, team2Name, team1Ranking, team2Ranking,
                   matchImportance, matchLocation, totalLine, pointSpread,
                   spreadDirection, lastAnalysisResults, now, ingested,
                   features, probs, args, result, bettingPanel>>

-----------------------------------------------------------------------------
(* validateInputs *)

\* name.trim()
Trim(name) ==
    CASE name = " "       -> ""
      [] name = "Team 2 " -> "Team 2"
      [] OTHER            -> name

MIN_MATCHES_FOR_GOOD_ANALYSIS == 4
MIN_MATCHES_FOR_EXCELLENT_ANALYSIS == 8
MIN_H2H_MATCHES == 2

\* The toast validateInputs rejects with, "declined" when the user cancels the
\* data sufficiency confirm(), "" when it returns true.
ValidateInputs(data, cfg, confirmed) ==
    IF GetTotalMatchCount(data) = 0 THEN "Please add match data before analyzing"
    ELSE IF Trim(cfg.team1Name) = "" \/ Trim(cfg.team2Name) = ""
    THEN "Please enter names for both teams"
    ELSE IF Trim(cfg.team1Name) = Trim(cfg.team2Name)
    THEN "Team names must be different"
    ELSE IF GetTotalMatchCount(data) < MIN_MATCHES_FOR_GOOD_ANALYSIS /\ ~confirmed
    THEN "declined"
    ELSE ""

-----------------------------------------------------------------------------
(* processAllMatchData, updateSpreadCoverCalculations *)

\* parseFloat(text) || 0, in tenths.
ParseFloatOrZero(text) ==
    CASE text = "0.5" -> 5
      [] text = "1.0" -> 10
      [] text = "1.5" -> 15
      [] text = "2.5" -> 25
      [] OTHER        -> 0

\* The configuration after processAllMatchData read the three line fields.
ProcessAllMatchData(cfg, form) ==
    [cfg EXCEPT !.totalLine = ParseFloatOrZero(form.bettingLine),
                !.pointSpread = ParseFloatOrZero(form.pointSpread),
                !.spreadDirection = form.spreadDirection]

\* An update that leaves totalOverLine alone: C5 must not hold of it.
UpdatedMatchSpreadOnly(match, cfg) ==
    [match EXCEPT
        !.spreadCover = IF cfg.pointSpread > 0
                        THEN CalculateSpreadCover(match.team1Score, match.team2Score,
                                                  cfg.pointSpread, cfg.spreadDirection)
                        ELSE None]

UpdatedMatch(match, cfg) ==
    [match EXCEPT
        !.spreadCover = IF cfg.pointSpread > 0
                        THEN CalculateSpreadCover(match.team1Score, match.team2Score,
                                                  cfg.pointSpread, cfg.spreadDirection)
                        ELSE None,
        !.totalOverLine = IF cfg.totalLine > 0
                          THEN Some(match.totalScore * 10 > cfg.totalLine)
                          ELSE None]

UpdateSpreadCoverCalculations(data, cfg) ==
    [c \in Categories |-> [i \in 1..Len(data[c]) |-> UpdatedMatch(data[c][i], cfg)]]

-----------------------------------------------------------------------------
(* prepareMatchFeatures: the basicStats and dataQuality parts of the snapshot
   that are sums, counts and configuration. An average is the fraction
   <<sum, count>>. *)

RECURSIVE SumOf(_, _)
SumOf(list, field) ==
    IF list = <<>> THEN 0 ELSE Head(list)[field] + SumOf(Tail(list), field)

CalculateOverallTeamAverage(data, isTeam1) ==
    LET teamCategory == IF isTeam1 THEN "team1" ELSE "team2"
        teamProperty == IF isTeam1 THEN "team1Score" ELSE "team2Score"
        sum == SumOf(data["h2h"], teamProperty) + SumOf(data[teamCategory], teamProperty)
        count == Len(data["h2h"]) + Len(data[teamCategory])
    IN  IF count > 0 THEN <<sum, count>> ELSE <<3, 2>>

CalculateTeamAverageConceded(data, isTeam1) ==
    LET teamCategory == IF isTeam1 THEN "team1" ELSE "team2"
        opponentProperty == IF isTeam1 THEN "team2Score" ELSE "team1Score"
        sum == SumOf(data["h2h"], opponentProperty)
               + SumOf(data[teamCategory], opponentProperty)
        count == Len(data["h2h"]) + Len(data[teamCategory])
    IN  IF count > 0 THEN <<sum, count>> ELSE <<3, 2>>

PrepareMatchFeatures(data, cfg) ==
    [ basicStats |->
        [ team1AvgScore    |-> CalculateOverallTeamAverage(data, TRUE),
          team2AvgScore    |-> CalculateOverallTeamAverage(data, FALSE),
          team1AvgConceded |-> CalculateTeamAverageConceded(data, TRUE),
          team2AvgConceded |-> CalculateTeamAverageConceded(data, FALSE),
          locationFactor   |-> IF cfg.matchLocation = "home" THEN 1
                               ELSE IF cfg.matchLocation = "away" THEN -1 ELSE 0,
          rankingDiff      |-> IF cfg.team1Ranking # 0 /\ cfg.team2Ranking # 0
                               THEN cfg.team1Ranking - cfg.team2Ranking ELSE 0,
          matchImportance  |-> cfg.matchImportance,
          totalLine        |-> cfg.totalLine,
          pointSpread      |-> cfg.pointSpread,
          spreadDirection  |-> IF cfg.spreadDirection = "team1" THEN 1 ELSE -1 ],
      dataQuality |->
        [ totalMatches    |-> GetTotalMatchCount(data),
          team1Matches    |-> Len(data["team1"]),
          team2Matches    |-> Len(data["team2"]),
          h2hMatches      |-> Len(data["h2h"]),
          dataSufficiency |-> GetTotalMatchCount(data) >= MIN_MATCHES_FOR_GOOD_ANALYSIS,
          dataExcellence  |-> GetTotalMatchCount(data) >= MIN_MATCHES_FOR_EXCELLENT_ANALYSIS
                              /\ Len(data["h2h"]) >= MIN_H2H_MATCHES ] ]

-----------------------------------------------------------------------------
(* performAnalysis *)

\* The steps of performAnalysis that call into the page and the chart library
\* and can raise; "none" when the run raises nothing.
FailPoints == {"none", "updateWinnerPrediction", "createWinProbabilityChart"}

\* The steps that come before the assignment to lastAnalysisResults.
StepsBeforeStore == {"prepareMatchFeatures", "calculateModelV1WinProbabilities",
                     "calculateModelV1ProjectedTotal",
                     "calculateModelV1ProjectedMargin",
                     "ensurePredictionConsistency"}

\* A run that reads the configuration of before the click: C4 must not hold of it.
StaleAnalysisConfig(before, after) == before

\* The globals the stored result is built from: performAnalysis runs after
\* processAllMatchData and reads the configuration that one left.
AnalysisConfig(before, after) == after

\* Probabilities that are never moved to the priors: C13 must not hold of it.
NoReversion(f) == 0

\* The share, in per cent, by which calculateModelV1WinProbabilities moves
\* the probabilities to 40 / 40 / 20.
Reversion(f) == IF ~f.dataQuality.dataSufficiency THEN 30 ELSE 0

\* A value that is computed from the projections; the handlers' state machine
\* does not hold the projections.
ByProjection == None

\* An edge that is taken from the projection whatever the line: C16 must not
\* hold of it.
EdgeAlwaysComputed(line) == ByProjection

\* overUnderEdge and spreadEdge: 0 unless the line is set.
BettingEdge(line) == IF line > 0 THEN ByProjection ELSE Some(0)

\* What performAnalysis hands to updateBettingRecommendation.
BettingRecommendation(cfg) ==
    [ overUnderEdge        |-> BettingEdge(cfg.totalLine),
      spreadEdge           |-> BettingEdge(cfg.pointSpread),
      totalRecommendation  |-> IF cfg.totalLine > 0 THEN "BY EDGE" ELSE "NO LINE SET",
      spreadRecommendation |-> IF cfg.pointSpread > 0 THEN "BY EDGE" ELSE "NO SPREAD SET" ]

\* The steps that come before the call of updateBettingRecommendation.
StepsBeforePanel == {"updateWinnerPrediction"}

\* The stored object.  probabilities, projectedTotal and projectedMargin are
\* computed from the record store and the globals alone (no clock, no random
\* number) and are held here as the store they were computed from.
AnalysisResult(data, cfg) ==
    [ computedFrom    |-> data,
      team1Name       |-> cfg.team1Name,
      team2Name       |-> cfg.team2Name,
      totalLine       |-> cfg.totalLine,
      pointSpread     |-> cfg.pointSpread,
      spreadDirection |-> cfg.spreadDirection,
      matchImportance |-> cfg.matchImportance,
      matchLocation   |-> cfg.matchLocation,
      features        |-> PrepareMatchFeatures(data, cfg),
      reversion       |-> Reversion(PrepareMatchFeatures(data, cfg)) ]

\* A run whose extractors see an emptied store: C19 must not hold of it.
PerformAnalysisOnEmptiedStore(old, data, cfg, failAt) ==
    Some(AnalysisResult([c \in Categories |-> <<>>], cfg))

\* lastAnalysisResults after performAnalysis, which raises at step failAt.
PerformAnalysis(old, data, cfg, failAt) ==
    IF GetTotalMatchCount(data) = 0 THEN old
    ELSE IF failAt \in StepsBeforeStore THEN old
    ELSE Some(AnalysisResult(data, cfg))

\* The click handler of the analyze button.
AnalyzeClick ==
    /\ steps < MaxSteps
    /\ steps' = steps + 1
    /\ \E confirmed \in BOOLEAN, failAt \in FailPoints :
          LET verdict == ValidateInputs(matchData, Config, confirmed)
              asked == ValidateInputs(matchData, Config, FALSE) = "declined"
              after == ProcessAllMatchData(Config, lineForm)
              updated == UpdateSpreadCoverCalculations(matchData, after)
          IN  /\ ~asked => confirmed
              /\ verdict # "" => failAt = "none"
              /\ IF verdict # ""
                 THEN /\ UNCHANGED <<matchData, totalLine, pointSpread,
                                     spreadDirection, lastAnalysisResults,
                                     bettingPanel>>
                      /\ last' = [op |-> "analyze", cat |-> "none",
                                  outcome |-> IF verdict = "declined" THEN "declined"
                                              ELSE "rejected",
                                  added |-> 0, before |-> 0, streak |-> 0,
                                  toast |-> IF verdict = "declined" THEN "" ELSE verdict]
                 ELSE /\ totalLine' = after.totalLine
                      /\ pointSpread' = after.pointSpread
                      /\ spreadDirection' = after.spreadDirection
                      /\ matchData' = updated
                      /\ lastAnalysisResults' =
                            PerformAnalysis(lastAnalysisResults, updated,
                                            AnalysisConfig(Config, after), failAt)
                      /\ bettingPanel' =
                            IF failAt \in StepsBeforeStore \cup StepsBeforePanel
                            THEN bettingPanel
                            ELSE Some(BettingRecommendation(AnalysisConfig(Config, after)))
                      /\ last' = [op |-> "analyze", cat |-> "none",
                                  outcome |-> IF failAt = "none" THEN "ok" ELSE "failed",
                                  added |-> 0, before |-> 0,
                                  streak |-> IF failAt # "none" THEN 0
                                             ELSE IF last.op = "analyze" /\ last.outcome = "ok"
                                                  THEN last.streak + 1 ELSE 1,
                                  toast |-> IF failAt = "none" THEN ""
                                            ELSE "Analysis failed. Please try again."]
    /\ UNCHANGED <<team1Name, team2Name, team1Ranking, team2Ranking,
                   matchImportance, matchLocation, lineForm, now, ingested,
                   features, probs, args, result>>

-----------------------------------------------------------------------------
(* addSampleData *)

SampleH2H == << <<"1", "2", "1", "2", "0">>, <<"1", "2", "0", "1", "1">> >>
SampleTeam1 == << <<"2", "3", "1", "0", "2", "3">>, <<"0", "1", "0", "0", "1", "1">> >>
SampleTeam2 == << <<"3", "2", "1", "3", "4", "2">>, <<"0", "0", "0", "1", "1", "2">> >>

\* tickAt numbers the 17 Date.now() calls of the three add loops: the clock
\* advances right before the first one, or not at all during the handler.
AddSampleData ==
    /\ steps < MaxSteps
    /\ steps' = steps + 1
    /\ \E confirmed \in BOOLEAN, tickAt \in {1, 18} :
          LET cleared == ClearedData(matchData, confirmed)
              cfg == [Config EXCEPT !.team1Name = "Liverpool",
                                    !.team2Name = "Manchester City",
                                    !.team1Ranking = 4,
                                    !.team2Ranking = 2]
          IN  /\ (GetTotalMatchCount(matchData) = 0) => confirmed
              /\ tickAt < 18 => now < ClockStart + MaxTicks
              /\ team1Name' = cfg.team1Name
              /\ team2Name' = cfg.team2Name
              /\ team1Ranking' = cfg.team1Ranking
              /\ team2Ranking' = cfg.team2Ranking
              /\ matchData' =
                    [ h2h   |-> AddResult(cleared["h2h"], "h2h",
                                          SampleH2H[1], SampleH2H[2], tickAt, cfg),
                      team1 |-> AddResult(cleared["team1"], "team1",
                                          SampleTeam1[1], SampleTeam1[2], tickAt - 5, cfg),
                      team2 |-> AddResult(cleared["team2"], "team2",
                                          SampleTeam2[1], SampleTeam2[2], tickAt - 11, cfg) ]
              /\ now' = IF tickAt < 18 THEN now + 1 ELSE now
    /\ lineForm' = [lineForm EXCEPT !.bettingLine = "2.5", !.pointSpread = "1.0"]
    /\ ingested' = [ h2h   |-> <<ParseScores(SampleH2H[1]), ParseScores(SampleH2H[2])>>,
                     team1 |-> <<ParseScores(SampleTeam1[1]), ParseScores(SampleTeam1[2])>>,
                     team2 |-> <<ParseScores(SampleTeam2[1]), ParseScores(SampleTeam2[2])>> ]
    /\ last' = [op |-> "sample", cat |-> "none", outcome |-> "ok", added |-> 17,
                before |-> GetTotalMatchCount(matchData), streak |-> 0,
                toast |-> "Sample data added successfully"]
    /\ UNCHANGED <<matchImportance, matchLocation, totalLine, pointSpread,
                   spreadDirection, lastAnalysisResults, features, probs, args, result, bettingPanel>>

-----------------------------------------------------------------------------

\* The globals and the page as the script leaves them once loaded.
Loaded ==
    /\ matchData = [c \in Categories |-> <<>>]
    /\ team1Name = "Team 1"
    /\ team2Name = "Team 2"
    /\ team1Ranking = 0
    /\ team2Ranking = 0
    /\ matchImportance = 10
    /\ matchLocation = "neutral"
    /\ totalLine = 0
    /\ pointSpread = 0
    /\ spreadDirection = "team1"
    /\ lastAnalysisResults = None
    /\ lineForm = [bettingLine |-> "", pointSpread |-> "", spreadDirection |-> "team1"]
    /\ now = ClockStart
    /\ last = [op |-> "init", cat |-> "none", outcome |-> "ok", added |-> 0,
               before |-> 0, streak |-> 0, toast |-> ""]
    /\ ingested = [c \in Categories |-> <<>>]
    /\ steps = 0
    /\ bettingPanel = None

Init ==
    /\ Loaded
    /\ features = None
    /\ probs = None
    /\ args = None
    /\ result = None

Next ==
    \/ HandleH2HAdd
    \/ HandleTeam1Add
    \/ HandleTeam2Add
    \/ ClearAllData
    \/ HandleTeamSetup
    \/ EditLineForm
    \/ AnalyzeClick
    \/ AddSampleData

Spec == Init /\ [][Next]_vars

-----------------------------------------------------------------------------
(* One add handler run from the initial state, on every pair of score texts
   of at most MaxLen tokens. *)

IngestClick(category) ==
    /\ steps = 0
    /\ steps' = 1
    /\ \E text1 \in ScoreTexts, text2 \in ScoreTexts :
       \E tickAt \in 1..(Min(Len(text1), Len(text2)) + 1) :
          HandleAdd(category, text1, text2, tickAt)

NextIngest ==
    \/ IngestClick("h2h")
    \/ IngestClick("team1")
    \/ IngestClick("team2")

SpecIngest == Init /\ [][NextIngest]_vars

-----------------------------------------------------------------------------
(* calculateModelV1WinProbabilities

   Feature values are in hundredths, matchImportance and the weights in
   tenths, the advantage coefficient in ten-thousandths, the draw rate in
   hundredths of a percentage point.  A probability triple is <<n1, n2, n3, d>>
   for team 1, team 2 and the draw: outcome i has probability 100 * ni / d
   per cent.  The arithmetic on triples is exact. *)

WEIGHTS == [ RECENT_FORM |-> 28, H2H_MATCHES |-> 25, OVERALL_PERFORMANCE |-> 22,
             HOME_ADVANTAGE |-> 16, RANKING |-> 12, MATCH_IMPORTANCE |-> 15,
             MOMENTUM |-> 20 ]

Sign(x) == IF x > 0 THEN 1 ELSE IF x < 0 THEN -1 ELSE 0

\* 1000 / (1 + Math.exp(-x)) at x = 0, 0.5, ..., 3, to the nearest integer.
LogisticKnots == <<500, 622, 731, 818, 881, 924, 953>>

\* 1000 / (1 + Math.exp(-advantage)) for an advantage in ten-thousandths
\* within [-3, 3]: linear between the knots.
RECURSIVE Logistic(_)
Logistic(advantage) ==
    IF advantage < 0 THEN 1000 - Logistic(-advantage)
    ELSE LET k == advantage \div 5000
             r == advantage % 5000
         IN  IF r = 0 THEN LogisticKnots[k + 1]
             ELSE LogisticKnots[k + 1]
                  + ((LogisticKnots[k + 2] - LogisticKnots[k + 1]) * r) \div 5000

AttackDifference(f) ==
    (f.team1AttackStrength - f.team2DefenseStrength)
    - (f.team2AttackStrength - f.team1DefenseStrength)

AdvantageCoefficient(f) ==
    LET base == 10 * ( AttackDifference(f) * WEIGHTS.OVERALL_PERFORMANCE
                       + (f.team1RecentForm - f.team2RecentForm) * WEIGHTS.RECENT_FORM
                       + f.h2hAdvantage * WEIGHTS.H2H_MATCHES
                       + (f.team1MomentumIndex - f.team2MomentumIndex) * WEIGHTS.MOMENTUM )
        locationTeamAdvantage == IF f.locationFactor = 1 THEN f.team1HomeAdvantage
                                 ELSE f.team2HomeAdvantage
        location == IF f.locationFactor # 0
                    THEN 10 * f.locationFactor * locationTeamAdvantage * WEIGHTS.HOME_ADVANTAGE
                    ELSE 0
        importanceDifference == f.team1MatchImportancePerformance
                                - f.team2MatchImportancePerformance
        importance == IF f.matchImportance # 10
                      THEN (f.matchImportance - 10) * importanceDifference
                           * WEIGHTS.MATCH_IMPORTANCE
                      ELSE 0
        \* -sign(d) * min(1, |d| / 20) * RANKING
        ranking == IF f.rankingDiff # 0
                   THEN -Sign(f.rankingDiff) * Min(20, Abs(f.rankingDiff))
                        * 50 * WEIGHTS.RANKING
                   ELSE 0
    IN  base + location + importance + ranking

NormalizedAdvantage(f) == Max(-30000, Min(30000, AdvantageCoefficient(f)))

BaseDrawRate(f) ==
    3500 - (f.team1AvgScore + f.team2AvgScore) * 4 - Abs(AttackDifference(f)) * 15
    + (IF f.team1DefenseStrength < 80 /\ f.team2DefenseStrength < 80 THEN 1000 ELSE 0)
    + (IF f.matchImportance > 13 THEN (f.matchImportance - 13) * 80 ELSE 0)

DrawProb(f) == Max(500, Min(4500, BaseDrawRate(f)))

\* The win probabilities after the draw allocation, with the draw probability.
BaseProbabilities(f) ==
    LET baseProbTotal == 10000 - DrawProb(f)
        share == Logistic(NormalizedAdvantage(f))
    IN  <<baseProbTotal * share, baseProbTotal * (1000 - share),
          DrawProb(f) * 1000, 10000000>>

RECURSIVE GCD(_, _)
GCD(a, b) == IF b = 0 THEN a ELSE GCD(b, a % b)

\* The same probabilities in lowest terms.
Reduced(p) ==
    LET g == GCD(GCD(p[1], p[2]), GCD(p[3], p[4]))
    IN  <<p[1] \div g, p[2] \div g, p[3] \div g, p[4] \div g>>

\* No normalization: the amended C10 must not hold of it.
Unnormalized(p) == p

\* Each probability divided by the total of the three, times 100.
Normalized(p) == Reduced(<<p[1], p[2], p[3], p[1] + p[2] + p[3]>>)

\* 30% reversion to 40 / 40 / 20.
Blended(p) ==
    Reduced(<<70 * p[1] + 12 * p[4], 70 * p[2] + 12 * p[4],
              70 * p[3] + 6 * p[4], 100 * p[4]>>)

\* Math.max(5, x) on each probability.
Floored(p) ==
    LET q == IF p[4] % 20 = 0 THEN p
             ELSE <<20 * p[1], 20 * p[2], 20 * p[3], 20 * p[4]>>
        five == q[4] \div 20
    IN  <<Max(five, q[1]), Max(five, q[2]), Max(five, q[3]), q[4]>>

\* The value of each local triple where the function leaves it: after the
\* first normalization, after the data quality adjustment, after the floor,
\* and the returned object.
CalculateModelV1WinProbabilities(f) ==
    LET normalized == Normalized(BaseProbabilities(f))
        adjusted == IF ~f.dataSufficiency THEN Blended(normalized) ELSE normalized
        floored == Floored(adjusted)
    IN  [ normalized |-> normalized,
          adjusted   |-> adjusted,
          floored    |-> floored,
          returned   |-> Normalized(floored) ]

\* Feature objects the function is applied to.
ProbFeatures ==
    [ team1AvgScore : {150, 400},
      team2AvgScore : {0, 150},
      team1AttackStrength : {100, 333},
      team2AttackStrength : {0, 100},
      team1DefenseStrength : {0, 70},
      team2DefenseStrength : {70, 333},
      team1RecentForm : {50, 100},
      team2RecentForm : {0, 50},
      h2hAdvantage : {-100, 100},
      team1MomentumIndex : {0},
      team2MomentumIndex : {0},
      team1HomeAdvantage : {100},
      team2HomeAdvantage : {160},
      team1MatchImportancePerformance : {100},
      team2MatchImportancePerformance : {80},
      locationFactor : {-1, 0, 1},
      rankingDiff : {-25, 0},
      matchImportance : {10, 15},
      dataSufficiency : BOOLEAN ]

InitProb ==
    /\ Loaded
    /\ features \in {Some(f) : f \in ProbFeatures}
    /\ probs = None
    /\ args = None
    /\ result = None

ApplyWinProbabilities ==
    /\ probs = None
    /\ probs' = Some(CalculateModelV1WinProbabilities(features[1]))
    /\ UNCHANGED <<matchData, team1Name, team2Name, team1Ranking, team2Ranking,
                   matchImportance, matchLocation, totalLine, pointSpread,
                   spreadDirection, lastAnalysisResults, lineForm, now, last,
                   ingested, steps, features, args, result, bettingPanel>>

NextProb == ApplyWinProbabilities

SpecProb == InitProb /\ [][NextProb]_vars

-----------------------------------------------------------------------------
(* ensurePredictionConsistency

   Probabilities are whole per cents, projectedMargin is in hundredths of a
   goal and adjustedMargin in thousandths. *)

\* The variables a pure function leaves alone.
storeVars == <<matchData, team1Name, team2Name, team1Ranking, team2Ranking,
               matchImportance, matchLocation, totalLine, pointSpread,
               spreadDirection, lastAnalysisResults, lineForm, now, last,
               ingested, steps, bettingPanel>>

\* The state in which a pure function is applied to the arguments a.
Applying(a) ==
    /\ Loaded
    /\ features = None
    /\ probs = None
    /\ args = Some(a)
    /\ result = None

\* The step that applies a pure function and keeps its value r.
Returns(r) ==
    /\ result = None
    /\ result' = Some(r)
    /\ UNCHANGED <<storeVars, features, probs, args>>

marginThreshold == 25

\* A choice that takes the draw whenever drawProb ties for the maximum: C25
\* must not hold of it.
PredictedWinnerDrawOnTie(probabilities) ==
    LET highestProb == Max(probabilities.team1WinProb,
                           Max(probabilities.team2WinProb, probabilities.drawProb))
    IN  IF probabilities.drawProb = highestProb THEN "draw"
        ELSE IF probabilities.team1WinProb = highestProb THEN "team1"
        ELSE "team2"

PredictedWinner(probabilities) ==
    LET highestProb == Max(probabilities.team1WinProb,
                           Max(probabilities.team2WinProb, probabilities.drawProb))
    IN  IF probabilities.team1WinProb = highestProb THEN "team1"
        ELSE IF probabilities.team2WinProb = highestProb THEN "team2"
        ELSE "draw"

MarginPredictedWinner(projectedMargin) ==
    IF projectedMargin > marginThreshold THEN "team1"
    ELSE IF projectedMargin < -marginThreshold THEN "team2" ELSE "draw"

\* A draw prediction that halves the margin: C12 must not hold of it.
HalvedMargin(projectedMargin) == 5 * projectedMargin

\* adjustedMargin * 0.2
ShrunkMargin(projectedMargin) == 2 * projectedMargin

\* A margin that always favours team 1: C11 must not hold of it.
FavoringTeam1(predictedWinner, projectedMargin) ==
    Max(10 * marginThreshold, 8 * Abs(projectedMargin))

\* The margin moved to the side of the predicted winner.
FavoringWinner(predictedWinner, projectedMargin) ==
    IF predictedWinner = "team1"
    THEN Max(10 * marginThreshold, 8 * Abs(projectedMargin))
    ELSE Min(-10 * marginThreshold, -8 * Abs(projectedMargin))

EnsurePredictionConsistency(probabilities, projectedMargin) ==
    LET predictedWinner == PredictedWinner(probabilities)
    IN  [ adjustedProbabilities |-> probabilities,
          adjustedMargin |->
             IF predictedWinner = "draw" THEN ShrunkMargin(projectedMargin)
             ELSE IF predictedWinner # MarginPredictedWinner(projectedMargin)
             THEN FavoringWinner(predictedWinner, projectedMargin)
             ELSE 10 * projectedMargin ]

\* Probability objects: whole per cents from 5 in steps of ProbStep, adding up to 100.
ProbStep == 5

ProbabilityTriples ==
    LET grid == {n * ProbStep : n \in 1..(100 \div ProbStep)}
    IN  {[team1WinProb |-> a, team2WinProb |-> b, drawProb |-> 100 - a - b] :
            <<a, b>> \in {<<x, y>> \in grid \X grid : 100 - x - y >= 5}}

Margins == {-300, -100, -30, -26, -25, -10, 0, 10, 25, 26, 30, 100, 300}

InitConsistency ==
    \E p \in ProbabilityTriples, m \in Margins :
        Applying([probabilities |-> p, projectedMargin |-> m])

ApplyConsistency ==
    Returns(EnsurePredictionConsistency(args[1].probabilities, args[1].projectedMargin))

NextConsistency == ApplyConsistency

SpecConsistency == InitConsistency /\ [][NextConsistency]_vars

-----------------------------------------------------------------------------
(* calculateFeatureImportance

   Feature values are in hundredths and matchImportance in tenths, as above.
   The scores before the normalization are in hundredths, the returned ones
   are whole numbers. *)

ImportanceKeys == {"Head-to-Head History", "Recent Form", "Offensive Strength",
                   "Defensive Stability", "Home Advantage", "Team Momentum",
                   "Match Importance", "Team Ranking", "Scoring Trends"}

RawImportance(f) ==
    [ key \in ImportanceKeys |->
        CASE key = "Head-to-Head History" ->
                IF f.h2hMatches >= MIN_H2H_MATCHES
                THEN Abs(f.h2hAdvantage) * 100 + 1500 ELSE 3000
          [] key = "Recent Form" ->
                Abs(f.team1RecentForm - f.team2RecentForm) * 100 + 1000
          [] key = "Offensive Strength" ->
                Abs(f.team1AttackStrength - f.team2AttackStrength) * 50 + 1500
          [] key = "Defensive Stability" ->
                Abs(f.team1DefenseStrength - f.team2DefenseStrength) * 55 + 1500
          [] key = "Home Advantage" ->
                IF f.locationFactor # 0
                THEN Abs(f.locationFactor) * 6500 + 1000 ELSE 2000
          [] key = "Team Momentum" ->
                Abs(f.team1MomentumIndex - f.team2MomentumIndex) * 65 + 1000
          [] key = "Match Importance" ->
                IF f.matchImportance # 10
                THEN Abs(f.matchImportance - 10) * 550 + 1000 ELSE 2000
          [] key = "Team Ranking" ->
                IF f.rankingDiff # 0
                THEN Abs(f.rankingDiff) * 320 + 1000 ELSE 2000
          [] OTHER ->
                Abs(f.team1Trend - f.team2Trend) * 45 + 1000 ]

RECURSIVE SumOver(_, _)
SumOver(values, keys) ==
    IF keys = {} THEN 0
    ELSE LET key == CHOOSE k \in keys : TRUE
         IN  values[key] + SumOver(values, keys \ {key})

\* Math.round of the fraction n / d, d > 0 and n >= 0.
Round(n, d) == (2 * n + d) \div (2 * d)

\* Math.max(10, Math.min(95, x)) on hundredths.
Bounded(x) == Max(1000, Min(9500, x))

\* Math.max(10, Math.min(95, Math.round(value * 500 / total)))
Rescaled(value, total) == Max(10, Min(95, Round(value * 500, total)))

\* The object returned; the order of its keys is left out.
CalculateFeatureImportance(f) ==
    LET importance == [key \in ImportanceKeys |-> Bounded(RawImportance(f)[key])]
        totalImportance == SumOver(importance, ImportanceKeys)
    IN  [key \in ImportanceKeys |-> Rescaled(importance[key], totalImportance)]

\* Feature snapshots the function is applied to.
ImportanceFeatures ==
    [ h2hMatches : {0, 2},
      h2hAdvantage : {0, 100},
      team1RecentForm : {50, 100},
      team2RecentForm : {50},
      team1AttackStrength : {100, 333},
      team2AttackStrength : {100},
      team1DefenseStrength : {70, 100},
      team2DefenseStrength : {70},
      locationFactor : {0, 1},
      team1MomentumIndex : {0, 40},
      team2MomentumIndex : {0},
      matchImportance : {10, 15},
      rankingDiff : {0, 2},
      team1Trend : {0, 50},
      team2Trend : {0} ]

InitImportance == \E f \in ImportanceFeatures : Applying(f)

ApplyImportance == Returns(CalculateFeatureImportance(args[1]))

NextImportance == ApplyImportance

SpecImportance == InitImportance /\ [][NextImportance]_vars

-----------------------------------------------------------------------------
(* generateScoreDistribution

   projectedTotal and projectedMargin are whole goals of equal parity, so the
   two means are whole goals.  A probability before the normalization is a
   record [coef, exp] for the number coef * e^(-exp) / (24 * 24 * 1000): the
   arithmetic is exact.  A normalized probability is a numerator n over the
   table's denominator d, for 100 * n / d per cent. *)

Scores == 0..4

RECURSIVE Factorial(_)
Factorial(k) == IF k = 0 THEN 1 ELSE k * Factorial(k - 1)

RECURSIVE Power(_, _)
Power(x, k) == IF k = 0 THEN 1 ELSE x * Power(x, k - 1)

\* poissonProbability(k, lambda) times 24.
PoissonProbability(k, lambda) ==
    IF lambda <= 0 THEN [coef |-> IF k = 0 THEN 24 ELSE 0, exp |-> 0]
    ELSE [coef |-> Power(lambda, k) * (24 \div Factorial(k)), exp |-> lambda]

\* The product of the correlation adjustments of a cell, times 1000.
Adjustment(team1Score, team2Score, projectedTotal) ==
    ( (IF team1Score = team2Score THEN 13 ELSE 10)
    * (IF team1Score = 0 /\ team2Score = 0 /\ projectedTotal < 2 THEN 17 ELSE 10)
    * (IF (team1Score >= 3 /\ team2Score >= 2) \/ (team1Score >= 2 /\ team2Score >= 3)
       THEN 6 ELSE 5)
    * (IF team1Score + team2Score > 6 THEN 7 ELSE 10)
    * (IF <<team1Score, team2Score>> \in {<<1, 0>>, <<0, 1>>, <<1, 1>>, <<2, 1>>, <<1, 2>>}
       THEN 23 ELSE 20) ) \div 100

CombinedProb(team1Score, team2Score, projectedTotal, projectedMargin) ==
    LET team1Mean == (projectedTotal + projectedMargin) \div 2
        team2Mean == (projectedTotal - projectedMargin) \div 2
        team1Prob == PoissonProbability(team1Score, team1Mean)
        team2Prob == PoissonProbability(team2Score, team2Mean)
    IN  [ coef |-> team1Prob.coef * team2Prob.coef
                   * Adjustment(team1Score, team2Score, projectedTotal),
          exp  |-> team1Prob.exp + team2Prob.exp ]

RECURSIVE SumCells(_, _)
SumCells(cells, keys) ==
    IF keys = {} THEN 0
    ELSE LET key == CHOOSE k \in keys : TRUE
         IN  cells[key] + SumCells(cells, keys \ {key})

\* A total taken over the drawn scores only: C15 must not hold of it.
TotalOfDraws(raw) ==
    SumCells([c \in Scores \X Scores |-> raw[c].coef], {<<k, k>> : k \in Scores})

\* totalProb: every cell carries the same power of e, which the division by
\* totalProb cancels.
TotalProb(raw) == SumCells([c \in Scores \X Scores |-> raw[c].coef], Scores \X Scores)

\* The table returned, without its order: the 25 cells, the denominator of
\* their probabilities, and the 'Other' entry, None when it is not added.
GenerateScoreDistribution(projectedTotal, projectedMargin) ==
    LET raw == [c \in Scores \X Scores |->
                   CombinedProb(c[1], c[2], projectedTotal, projectedMargin)]
        totalProb == TotalProb(raw)
        cells == [c \in Scores \X Scores |-> raw[c].coef]
        otherProb == Max(0, totalProb - SumCells(cells, Scores \X Scores))
    IN  [ cells |-> cells,
          den   |-> totalProb,
          other |-> IF 1000 * otherProb > totalProb THEN Some(otherProb) ELSE None ]

\* Projections the function is applied to.
Projections == {<<t, m>> \in (0..8) \X (-12..12) : (t + m) % 2 = 0}

InitDistribution ==
    \E p \in Projections : Applying([projectedTotal |-> p[1], projectedMargin |-> p[2]])

ApplyDistribution ==
    Returns(GenerateScoreDistribution(args[1].projectedTotal, args[1].projectedMargin))

NextDistribution == ApplyDistribution

SpecDistribution == InitDistribution /\ [][NextDistribution]_vars

-----------------------------------------------------------------------------
(* calculateSpreadRecommendation *)

\* Math.abs(projectedMargin) < 0.3, the margin in hundredths of a goal.
\* A test that never finds the match close: C17 must not hold of it.
NeverClose(projectedMargin) == FALSE

CloseMatch(projectedMargin) == Abs(projectedMargin) < 30

\* 100 * spreadQualityFactor, the point spread in tenths.
SpreadQualityFactor(spread) == 100 - Max(0, 30 - spread)

\* calculateSpreadRecommendation(spreadEdge, projectedMargin) under the
\* globals g (pointSpread in tenths, spreadDirection, team names); the edge is
\* in hundredths of a per cent.  The returned text is held as its parts: the
\* label, or the team, the sign and the spread of a recommendation.
CalculateSpreadRecommendation(g, spreadEdge, projectedMargin) ==
    LET factor   == SpreadQualityFactor(g.pointSpread)
        strong   == 7 * factor
        moderate == 4 * factor
        favoriteTeam == IF g.spreadDirection = "team1" THEN g.team1Name ELSE g.team2Name
        underdogTeam == IF g.spreadDirection = "team1" THEN g.team2Name ELSE g.team1Name
        favoriteSpread(s) == [label |-> "COVER", strong |-> s, team |-> favoriteTeam,
                              sign |-> "-", spread |-> g.pointSpread]
        underdogSpread(s) == [label |-> "COVER", strong |-> s, team |-> underdogTeam,
                              sign |-> "+", spread |-> g.pointSpread]
    IN  IF g.pointSpread <= 0 THEN [label |-> "NO SPREAD SET"]
        ELSE IF CloseMatch(projectedMargin) THEN [label |-> "NO CLEAR EDGE"]
        ELSE IF spreadEdge > strong THEN favoriteSpread(TRUE)
        ELSE IF spreadEdge > moderate THEN favoriteSpread(FALSE)
        ELSE IF spreadEdge < -strong THEN underdogSpread(TRUE)
        ELSE IF spreadEdge < -moderate THEN underdogSpread(FALSE)
        ELSE [label |-> "NO CLEAR EDGE"]

\* Edges, margins and point spreads the function is applied to: on, next to
\* and far from each threshold.
SpreadEdges == {-900, -701, -700, -560, -401, -400, -100, 0,
                100, 400, 401, 560, 700, 701, 900}
SpreadMargins == {-150, -31, -30, -29, -10, 0, 10, 29, 30, 31, 150}
PointSpreads == {0, 5, 15, 30, 45}

InitSpread ==
    \E e \in SpreadEdges, m \in SpreadMargins, p \in PointSpreads, d \in SpreadDirections :
        Applying([spreadEdge |-> e, projectedMargin |-> m,
                  globals |-> [pointSpread |-> p, spreadDirection |-> d,
                               team1Name |-> "Team 1", team2Name |-> "Team 2"]])

ApplySpread ==
    Returns(CalculateSpreadRecommendation(args[1].globals, args[1].spreadEdge,
                                          args[1].projectedMargin))

NextSpread == ApplySpread

SpecSpread == InitSpread /\ [][NextSpread]_vars

-----------------------------------------------------------------------------
(* The extractors of prepareMatchFeatures.  Their values are rational numbers
   n / d held as <<n, d>> in lowest terms with d > 0. *)

Frac(n, d) == LET g == GCD(Abs(n), d) IN <<n \div g, d \div g>>

\* a + b over the least common denominator.
FracAdd(a, b) ==
    LET g == GCD(a[2], b[2])
    IN  Frac(a[1] * (b[2] \div g) + b[1] * (a[2] \div g), a[2] * (b[2] \div g))

FracSub(a, b) == FracAdd(a, <<-b[1], b[2]>>)

\* a * b, the common factors divided out before the products are taken.
FracMul(a, b) ==
    LET x == Frac(a[1], b[2])
        y == Frac(b[1], a[2])
    IN  Frac(x[1] * y[1], x[2] * y[2])

\* a / b for b # 0.
FracDiv(a, b) ==
    IF b[1] > 0 THEN FracMul(a, <<b[2], b[1]>>)
    ELSE FracMul(a, <<-b[2], -b[1]>>)

FracLess(a, b) == a[1] * b[2] < b[1] * a[2]
FracMin(a, b) == IF FracLess(b, a) THEN b ELSE a
FracMax(a, b) == IF FracLess(a, b) THEN b ELSE a

\* The same number, whether or not in lowest terms.
FracEq(a, b) == a[1] * b[2] = b[1] * a[2]

RECURSIVE SumSeq(_)
\* array.reduce((sum, val) => sum + val, 0)
SumSeq(s) == IF s = <<>> THEN 0 ELSE Head(s) + SumSeq(Tail(s))

\* array.filter(...).length for a sequence of booleans.
CountTrue(s) == Cardinality({i \in 1..Len(s) : s[i]})

\* The team's own series.
OwnSeries(data, isTeam1) == data[IF isTeam1 THEN "team1" ELSE "team2"]

\* `${teamName} Wins` of the team under the current names.
TeamWinString(cfg, isTeam1) ==
    (IF isTeam1 THEN cfg.team1Name ELSE cfg.team2Name) \o " Wins"

\* What the extractors read of a record for one team: its score, the
\* opponent's score, and whether the outcome label is the team's win or a draw.
TeamMatchOf(match, cfg, isTeam1) ==
    [ win           |-> match.outcome = TeamWinString(cfg, isTeam1),
      draw          |-> match.outcome = "Draw",
      timestamp     |-> match.timestamp,
      score         |-> IF isTeam1 THEN match.team1Score ELSE match.team2Score,
      opponentScore |-> IF isTeam1 THEN match.team2Score ELSE match.team1Score ]

\* [...matchData.h2h.map(...), ...matchData[own].map(...)]
TeamMatches(data, cfg, isTeam1) ==
    LET all == data["h2h"] \o OwnSeries(data, isTeam1)
    IN  [i \in 1..Len(all) |-> TeamMatchOf(all[i], cfg, isTeam1)]

RECURSIVE InsertNewestFirst(_, _)
\* Insert r after every record whose timestamp is not smaller (a stable sort).
InsertNewestFirst(sorted, r) ==
    IF sorted = <<>> THEN <<r>>
    ELSE IF Head(sorted).timestamp >= r.timestamp
         THEN <<Head(sorted)>> \o InsertNewestFirst(Tail(sorted), r)
         ELSE <<r>> \o sorted

RECURSIVE SortNewestFirst(_)
\* array.sort((a, b) => b.timestamp - a.timestamp), newest first, stable.
SortNewestFirst(s) ==
    IF s = <<>> THEN <<>>
    ELSE InsertNewestFirst(SortNewestFirst(SubSeq(s, 1, Len(s) - 1)), s[Len(s)])

(* calculateRecentForm *)

\* A recent form of 0.9 on no data: C18 must not hold of it.
OptimisticForm == <<9, 10>>

\* The neutral form returned when the team has no match.
NeutralForm == <<1, 2>>

\* matchScore of one match, in hundredths.
MatchScore(m) ==
    IF m.win
    THEN 300 + Min(70, (m.score - m.opponentScore) * 15)
             + (IF m.opponentScore = 0 THEN 40 ELSE 0)
    ELSE IF m.draw
    THEN 100 + (IF m.score + m.opponentScore >= 4 THEN 30 ELSE 0)
    ELSE (IF m.score >= 2 THEN 40 ELSE 0)
         + (IF m.opponentScore - m.score = 1 THEN 30 ELSE 0)

\* 256 * Math.pow(0.75, index), index in 0..4.
RecencyWeight(index) == Power(3, index) * Power(4, 4 - index)

CalculateRecentForm(data, cfg, isTeam1) ==
    LET sorted == SortNewestFirst(TeamMatches(data, cfg, isTeam1))
        teamMatches == SubSeq(sorted, 1, Min(5, Len(sorted)))
        formScore == SumSeq([i \in 1..Len(teamMatches) |->
                                MatchScore(teamMatches[i]) * RecencyWeight(i - 1)])
        totalWeight == SumSeq([i \in 1..Len(teamMatches) |-> RecencyWeight(i - 1)])
    IN  IF Len(sorted) = 0 THEN NeutralForm
        ELSE Frac(formScore, totalWeight * 400)

(* calculateMomentumIndex *)

\* The last three matches: array.slice(-3).
LastThree(s) == SubSeq(s, Max(1, Len(s) - 2), Len(s))

CalculateMomentumIndex(data, cfg, isTeam1) ==
    LET teamMatches == SortByTimestamp(TeamMatches(data, cfg, isTeam1))
        n == Len(teamMatches)
        recent == LastThree(teamMatches)
        recentCount == Min(3, n)
        scoreOf(s) == SumSeq([i \in 1..Len(s) |-> s[i].score])
        goalDiffOf(s) == SumSeq([i \in 1..Len(s) |-> s[i].score - s[i].opponentScore])
        winsOf(s) == CountTrue([i \in 1..Len(s) |-> s[i].win])
        recentAvgScore == Frac(scoreOf(recent), recentCount)
        overallAvgScore == Frac(scoreOf(teamMatches), n)
        recentGoalDiff == Frac(goalDiffOf(recent), recentCount)
        overallGoalDiff == Frac(goalDiffOf(teamMatches), n)
        recentWinPct == Frac(winsOf(recent), recentCount)
        overallWinPct == Frac(winsOf(teamMatches), n)
        scoringMomentum == FracDiv(FracSub(recentAvgScore, overallAvgScore),
                                   FracMax(<<1, 2>>, overallAvgScore))
        goalDiffMomentum == FracSub(recentGoalDiff, overallGoalDiff)
        winMomentum == FracSub(recentWinPct, overallWinPct)
        momentum == FracAdd(FracAdd(FracMul(scoringMomentum, <<1, 4>>),
                                    FracMul(goalDiffMomentum, <<1, 4>>)),
                            FracMul(winMomentum, <<1, 2>>))
    IN  IF n < 3 THEN <<0, 1>>
        ELSE FracMax(<<-1, 1>>, FracMin(<<1, 1>>, FracMul(momentum, <<2, 1>>)))

(* calculateHomeAdvantage *)

CalculateHomeAdvantage(data, cfg, isTeam1) ==
    LET defaultAdvantage == <<1, 1>>
        view(list) == [i \in 1..Len(list) |-> TeamMatchOf(list[i], cfg, isTeam1)]
        homeMatches == view(OwnSeries(data, isTeam1))
        awayMatches == view(data["h2h"])
        winsOf(s) == CountTrue([i \in 1..Len(s) |-> s[i].win])
        goalDiffOf(s) == SumSeq([i \in 1..Len(s) |-> s[i].score - s[i].opponentScore])
        homeWinPct == Frac(winsOf(homeMatches), Len(homeMatches))
        awayWinPct == IF Len(awayMatches) > 0
                      THEN Frac(winsOf(awayMatches), Len(awayMatches))
                      ELSE <<3, 10>>
        homeGoalDiff == Frac(goalDiffOf(homeMatches), Len(homeMatches))
        awayGoalDiff == IF Len(awayMatches) > 0
                        THEN Frac(goalDiffOf(awayMatches), Len(awayMatches))
                        ELSE <<-1, 2>>
        winRatioAdvantage == IF homeWinPct[1] > 0 /\ awayWinPct[1] > 0
                             THEN FracDiv(homeWinPct, awayWinPct)
                             ELSE defaultAdvantage
        goalDiffAdvantage == FracSub(homeGoalDiff, awayGoalDiff)
        combinedAdvantage ==
            FracAdd(FracMul(winRatioAdvantage, <<7, 10>>),
                    FracMul(FracMin(<<2, 1>>,
                                    FracMax(<<0, 1>>,
                                            FracAdd(goalDiffAdvantage, <<1, 1>>))),
                            <<3, 10>>))
    IN  IF Len(OwnSeries(data, isTeam1)) = 0 THEN defaultAdvantage
        ELSE FracMax(<<1, 5>>, FracMin(<<2, 1>>, combinedAdvantage))

(* calculateTeamConsistency.  The square root and the powers of 0.9 are taken
   in fixed point, rounded down; the default of too few scores is exact. *)

RECURSIVE SqrtWithin(_, _, _)
\* The largest r in lo..hi with r * r <= x.
SqrtWithin(x, lo, hi) ==
    IF lo = hi THEN lo
    ELSE LET mid == (lo + hi + 1) \div 2
         IN  IF mid * mid <= x THEN SqrtWithin(x, mid, hi)
             ELSE SqrtWithin(x, lo, mid - 1)

\* Math.sqrt(x) rounded down to an integer, for 0 <= x < 2^31.
Sqrt(x) == SqrtWithin(x, 0, Min(x, 46340))

\* 1 for a win, 0 for a draw, -1 otherwise.
ResultOf(m) == IF m.win THEN 1 ELSE IF m.draw THEN 0 ELSE -1

\* array.reverse()
Reverse(s) == [i \in 1..Len(s) |-> s[Len(s) + 1 - i]]

\* stdDev / mean in hundredths, rounded down: with S the sum of the n scores
\* and Q = n * (sum of squares) - S * S, it is sqrt(Q) / S.
CoeffVariation(scores) ==
    LET n == Len(scores)
        S == SumSeq(scores)
        Q == n * SumSeq([i \in 1..n |-> scores[i] * scores[i]]) - S * S
    IN  IF S > 0 THEN Sqrt(Q * 10000) \div S ELSE 100

\* 1 - weightedChanges / totalWeight in ten-thousandths, rounded down; the
\* weight of step i is 0.9^(i-1).
ResultConsistency(results) ==
    LET sortedResults == Reverse(results)
        changes == Len(sortedResults) - 1
        weight(i) == Power(9, i - 1) * Power(10, changes - i)
        weightedChanges == SumSeq([i \in 1..changes |->
                               IF sortedResults[i + 1] # sortedResults[i]
                               THEN weight(i) ELSE 0])
        totalWeight == SumSeq([i \in 1..changes |-> weight(i)])
    IN  IF Len(results) >= 3
        THEN IF totalWeight > 0
             THEN ((totalWeight - weightedChanges) * 10000) \div totalWeight
             ELSE 5000
        ELSE 10000

CalculateTeamConsistency(data, cfg, isTeam1) ==
    LET teamMatches == TeamMatches(data, cfg, isTeam1)
        scores == [i \in 1..Len(teamMatches) |-> teamMatches[i].score]
        results == [i \in 1..Len(teamMatches) |-> ResultOf(teamMatches[i])]
        \* Math.max(0, 1 - coeffVariation / 2) in ten-thousandths
        scoreConsistency == 50 * Max(0, 200 - CoeffVariation(scores))
    IN  IF Len(scores) < 3 THEN <<1, 2>>
        ELSE Frac(35 * scoreConsistency + 65 * ResultConsistency(results), 1000000)

(* calculateMatchImportancePerformance *)

CalculateMatchImportancePerformance(data, cfg, isTeam1) ==
    LET teamMatches == TeamMatches(data, cfg, isTeam1)
        consistency == CalculateTeamConsistency(data, cfg, isTeam1)
        \* performance of one match, in tenths
        performance(m) == IF m.score - m.opponentScore > 0 THEN 12
                          ELSE IF m.score = m.opponentScore THEN 10 ELSE 8
        totalPerformance == SumSeq([i \in 1..Len(teamMatches) |->
                                       performance(teamMatches[i])])
        matchCount == Len(teamMatches)
        avgPerformance == IF matchCount > 0 THEN Frac(totalPerformance, 10 * matchCount)
                          ELSE <<1, 1>>
        importancePerformance == FracAdd(FracMul(consistency, <<6, 10>>),
                                         FracMul(avgPerformance, <<4, 10>>))
    IN  IF Len(teamMatches) < 2 THEN <<1, 1>>
        ELSE FracMax(<<1, 2>>, FracMin(<<3, 2>>, importancePerformance))

(* calculateH2HAdvantage *)

\* 1000 * Math.exp(-0.2 * index) for index 0 .. 7, to the nearest integer.
ExpDecay == <<1000, 819, 670, 549, 449, 368, 301, 247>>

CalculateH2HAdvantage(data, cfg) ==
    LET h2h == data["h2h"]
        team1Won(m) == m.outcome = cfg.team1Name \o " Wins"
        team2Won(m) == m.outcome = cfg.team2Name \o " Wins"
        team1Wins == CountTrue([i \in 1..Len(h2h) |-> team1Won(h2h[i])])
        team2Wins == CountTrue([i \in 1..Len(h2h) |-> team2Won(h2h[i])])
        advantageRatio == Frac(team1Wins - team2Wins, Len(h2h))
        sortedMatches == SortNewestFirst(h2h)
        weightedAdvantage ==
            SumSeq([i \in 1..Len(sortedMatches) |->
                       IF team1Won(sortedMatches[i]) THEN ExpDecay[i]
                       ELSE IF team2Won(sortedMatches[i]) THEN -ExpDecay[i]
                       ELSE 0])
        totalWeight == SumSeq([i \in 1..Len(sortedMatches) |-> ExpDecay[i]])
        normalizedWeightedAdvantage ==
            IF totalWeight > 0 THEN Frac(weightedAdvantage, totalWeight) ELSE <<0, 1>>
    IN  IF Len(h2h) = 0 THEN <<0, 1>>
        ELSE FracAdd(FracMul(advantageRatio, <<3, 10>>),
                     FracMul(normalizedWeightedAdvantage, <<7, 10>>))

(* calculateScoringTrends *)

\* calculateWeightedAverage of at most 5 values, newest first: the weight of
\* index i is 0.8^i, held as 4^i * 5^(4-i).
WeightedAverage(values) ==
    LET weight(i) == Power(4, i - 1) * Power(5, 5 - i)
        weightedSum == SumSeq([i \in 1..Len(values) |-> values[i] * weight(i)])
        totalWeight == SumSeq([i \in 1..Len(values) |-> weight(i)])
    IN  IF totalWeight > 0 THEN Frac(weightedSum, totalWeight) ELSE <<0, 1>>

\* The weighted average of the 5 newest values minus the plain average of the
\* older ones, each 1.0 when there is nothing to average; values newest first.
TeamTrend(values) ==
    LET n == Len(values)
        recentAvg == IF n > 0 THEN WeightedAverage(SubSeq(values, 1, Min(5, n)))
                     ELSE <<1, 1>>
        historicalAvg == IF n > 5 THEN Frac(SumSeq(SubSeq(values, 6, n)), n - 5)
                         ELSE <<1, 1>>
    IN  FracSub(recentAvg, historicalAvg)

\* match => match.team1Score
Team1TrendValue(match) == match.team1Score

\* match => match.category === 'h2h' ? match.team2Score : match.team1Score
Team2TrendValue(match) ==
    IF match.category = "h2h" THEN match.team2Score ELSE match.team1Score

CalculateScoringTrends(data) ==
    LET allMatches == SortNewestFirst(data["h2h"] \o data["team1"] \o data["team2"])
        n == Len(allMatches)
        recentMatches == SubSeq(allMatches, 1, Min(5, n))
        historicalMatches == SubSeq(allMatches, Min(5, n) + 1, n)
        totals(list) == [i \in 1..Len(list) |-> list[i].totalScore]
        recentAvgTotal == WeightedAverage(totals(recentMatches))
        historicalAvgTotal ==
            IF Len(historicalMatches) > 0
            THEN Frac(SumSeq(totals(historicalMatches)), Len(historicalMatches))
            ELSE <<5, 2>>
        team1Matches == SortNewestFirst(data["h2h"] \o data["team1"])
        team2Matches == SortNewestFirst(data["h2h"] \o data["team2"])
    IN  IF n < 3
        THEN [team1Trend |-> <<0, 1>>, team2Trend |-> <<0, 1>>, overallTrend |-> <<0, 1>>]
        ELSE [ team1Trend |-> TeamTrend([i \in 1..Len(team1Matches) |->
                                            Team1TrendValue(team1Matches[i])]),
               team2Trend |-> TeamTrend([i \in 1..Len(team2Matches) |->
                                            Team2TrendValue(team2Matches[i])]),
               overallTrend |-> FracSub(recentAvgTotal, historicalAvgTotal) ]

(* calculateCleanSheetStats *)

\* A check of team 2's own goals: C29 must not hold of it.
Team2FailedToScore(match) == match.team2Score = 0

\* checkFn of team 1, and of team 2 (both branches of its conditional test
\* team1Score).
Team1CleanSheet(match) == match.team2Score = 0
Team2CleanSheet(match) == match.team1Score = 0

\* applyRecencyWeight(matches, checkFn), the checks given as a sequence of
\* booleans in the order of matches; the weight of index i is 0.9^i.
ApplyRecencyWeight(matches, checks) ==
    LET tagged == [i \in 1..Len(matches) |->
                      [timestamp |-> matches[i].timestamp, check |-> checks[i]]]
        sortedMatches == SortNewestFirst(tagged)
        n == Len(sortedMatches)
        weight(i) == Power(9, i - 1) * Power(10, n - i)
        weightedCount == SumSeq([i \in 1..n |->
                                    IF sortedMatches[i].check THEN weight(i) ELSE 0])
        totalWeight == SumSeq([i \in 1..n |-> weight(i)])
    IN  [ count |-> CountTrue([i \in 1..n |-> sortedMatches[i].check]),
          weightedPct |-> IF totalWeight > 0
                          THEN FracMul(Frac(weightedCount, totalWeight), <<100, 1>>)
                          ELSE <<0, 1>> ]

CalculateCleanSheetStats(data) ==
    LET team1Matches == data["h2h"] \o data["team1"]
        team2Matches == data["h2h"] \o data["team2"]
        team1Stats == ApplyRecencyWeight(team1Matches,
                          [i \in 1..Len(team1Matches) |-> Team1CleanSheet(team1Matches[i])])
        team2Stats == ApplyRecencyWeight(team2Matches,
                          [i \in 1..Len(team2Matches) |-> Team2CleanSheet(team2Matches[i])])
    IN  [ team1CleanSheetPct |-> team1Stats.weightedPct,
          team2CleanSheetPct |-> team2Stats.weightedPct,
          team1CleanSheets   |-> team1Stats.count,
          team2CleanSheets   |-> team2Stats.count,
          team1Matches       |-> Len(team1Matches),
          team2Matches       |-> Len(team2Matches) ]

(* The extractors applied to the store the add handlers built. *)

\* The values prepareMatchFeatures takes from the extractors for one team.
TeamFeatures(data, cfg, isTeam1) ==
    [ avgScore    |-> CalculateOverallTeamAverage(data, isTeam1),
      avgConceded |-> CalculateTeamAverageConceded(data, isTeam1),
      recentForm  |-> CalculateRecentForm(data, cfg, isTeam1),
      consistency |-> CalculateTeamConsistency(data, cfg, isTeam1),
      momentumIndex |-> CalculateMomentumIndex(data, cfg, isTeam1),
      homeAdvantage |-> CalculateHomeAdvantage(data, cfg, isTeam1),
      matchImportancePerformance |->
          CalculateMatchImportancePerformance(data, cfg, isTeam1) ]

ExtractorValues(data, cfg) ==
    [ team1 |-> TeamFeatures(data, cfg, TRUE),
      team2 |-> TeamFeatures(data, cfg, FALSE),
      h2hAdvantage |-> CalculateH2HAdvantage(data, cfg),
      scoringTrends |-> CalculateScoringTrends(data),
      cleanSheetStats |-> CalculateCleanSheetStats(data) ]

\* The score texts the series are filled with: one to three matches.
ExtractTexts ==
    { <<<<"1">>, <<"1">>>>,
      <<<<"5">>, <<"0">>>>,
      <<<<"2", "0">>, <<"0", "1">>>>,
      <<<<"1", "2", "0">>, <<"0", "2", "1">>>>,
      <<<<"3", "1", "2">>, <<"0", "0", "1">>>>,
      <<<<"0", "1", "4">>, <<"2", "2", "1">>>> }

\* An add handler fills a series that is still empty.
FillSeries(category) ==
    /\ result = None
    /\ matchData[category] = <<>>
    /\ steps' = steps + 1
    /\ \E t \in ExtractTexts :
       \E tickAt \in {1, Min(Len(t[1]), Len(t[2])) + 1} :
          HandleAdd(category, t[1], t[2], tickAt)

ApplyExtractors ==
    /\ result = None
    /\ result' = Some(ExtractorValues(matchData, Config))
    /\ UNCHANGED <<storeVars, features, probs, args>>

NextExtract ==
    \/ FillSeries("h2h")
    \/ FillSeries("team1")
    \/ FillSeries("team2")
    \/ ApplyExtractors

SpecExtract == Init /\ [][NextExtract]_vars

-----------------------------------------------------------------------------
(* calculateModelV1ProjectedTotal: its base, before the adjustments *)

\* The mean of the four averages: the amended C22 must not hold of it.
MeanOfAverages(basicStats) ==
    FracMul(FracAdd(FracAdd(basicStats.team1AvgScore, basicStats.team2AvgScore),
                    FracAdd(basicStats.team1AvgConceded, basicStats.team2AvgConceded)),
            <<1, 4>>)

\* let baseTotal = (team1AvgScore + team2AvgScore + team1AvgConceded
\*                  + team2AvgConceded) / 2
BaseTotal(basicStats) ==
    FracMul(FracAdd(FracAdd(basicStats.team1AvgScore, basicStats.team2AvgScore),
                    FracAdd(basicStats.team1AvgConceded, basicStats.team2AvgConceded)),
            <<1, 2>>)

\* Averages the base is taken of: the default 1.5 and averages of records.
Averages == {<<3, 2>>, <<0, 1>>, <<1, 1>>, <<7, 3>>, <<4, 1>>}

InitBaseTotal ==
    \E a \in Averages, b \in Averages, c \in Averages, d \in Averages :
        Applying([team1AvgScore |-> a, team2AvgScore |-> b,
                  team1AvgConceded |-> c, team2AvgConceded |-> d])

ApplyBaseTotal == Returns(BaseTotal(args[1]))

NextBaseTotal == ApplyBaseTotal

SpecBaseTotal == InitBaseTotal /\ [][NextBaseTotal]_vars

-----------------------------------------------------------------------------
(* The spread edge of performAnalysis and the recommendation made of it *)

\* spreadEdge in hundredths of a per cent, for a margin in hundredths and a
\* point spread in tenths that divides 1000 (the division is then exact).
SpreadEdge(g, adjustedMargin) ==
    LET adjustedSpread == IF g.spreadDirection = "team1"
                          THEN g.pointSpread ELSE -g.pointSpread
    IN  ((adjustedMargin - 10 * adjustedSpread) * 1000)
            \div Max(10, Abs(adjustedSpread))

\* spreadRecommendation of performAnalysis for pointSpread > 0.
SpreadRecommendation(g, adjustedMargin) ==
    CalculateSpreadRecommendation(g, SpreadEdge(g, adjustedMargin), adjustedMargin)

\* Reconciled margins and point spreads the analysis recommends on.
ReconciledMargins == {-300, -150, -60, -31, -30, 30, 31, 60, 150, 300}
ExactPointSpreads == {5, 10, 20, 25, 40}

InitSpreadEdge ==
    \E m \in ReconciledMargins, p \in ExactPointSpreads, d \in SpreadDirections :
        Applying([adjustedMargin |-> m,
                  globals |-> [pointSpread |-> p, spreadDirection |-> d,
                               team1Name |-> "Team 1", team2Name |-> "Team 2"]])

ApplySpreadEdge ==
    Returns([spreadEdge |-> SpreadEdge(args[1].globals, args[1].adjustedMargin),
             spreadRecommendation |->
                 SpreadRecommendation(args[1].globals, args[1].adjustedMargin)])

NextSpreadEdge == ApplySpreadEdge

SpecSpreadEdge == InitSpreadEdge /\ [][NextSpreadEdge]_vars

-----------------------------------------------------------------------------
(* calculateOverUnderRecommendation *)

\* 100 * lineQualityFactor, the total line in tenths.
LineQualityFactor(line) == 100 - Abs(line - 25)

\* calculateOverUnderRecommendation(overUnderEdge, projectedTotal) under the
\* global totalLine (in tenths); the edge is in hundredths of a per cent, and
\* the thresholds 7.5 and 4.5 times the factor are compared doubled.  The
\* returned text is held as its parts.
CalculateOverUnderRecommendation(line, overUnderEdge) ==
    LET factor   == LineQualityFactor(line)
        strong   == 15 * factor
        moderate == 9 * factor
    IN  IF line <= 0 THEN [label |-> "NO LINE SET"]
        ELSE IF 2 * overUnderEdge > strong
        THEN [label |-> "OVER", strong |-> TRUE, line |-> line]
        ELSE IF 2 * overUnderEdge > moderate
        THEN [label |-> "OVER", strong |-> FALSE, line |-> line]
        ELSE IF 2 * overUnderEdge < -strong
        THEN [label |-> "UNDER", strong |-> TRUE, line |-> line]
        ELSE IF 2 * overUnderEdge < -moderate
        THEN [label |-> "UNDER", strong |-> FALSE, line |-> line]
        ELSE [label |-> "NO CLEAR EDGE"]

\* Total lines and edges the function is applied to.
TotalLines == {0, 5, 15, 25, 35, 65, 125, 130, 135, 165}
OverUnderEdges == {-2000, -750, -450, -300, -50, -10, 0, 10, 50, 300, 450, 750, 2000}

InitOverUnder ==
    \E l \in TotalLines, e \in OverUnderEdges :
        Applying([totalLine |-> l, overUnderEdge |-> e])

ApplyOverUnder ==
    Returns(CalculateOverUnderRecommendation(args[1].totalLine, args[1].overUnderEdge))

NextOverUnder == ApplyOverUnder

SpecOverUnder == InitOverUnder /\ [][NextOverUnder]_vars

-----------------------------------------------------------------------------
(* Properties *)

\* One handler ran in this step.
HandlerStep == steps' = steps + 1

\* The k-th record of category c holds the k-th pair of the lists s1, s2 in
\* the slots of its category.
HoldsPair(c, k, record, s1, s2) ==
    IF c = "team2"
    THEN record.team2Score = s1[k].v /\ record.team1Score = s2[k].v
    ELSE record.team1Score = s1[k].v /\ record.team2Score = s2[k].v

\* C1: after a successful add for a category, that category holds exactly the
\* min(len1, len2) records built from the new lists, none of its old records,
\* and the other two categories are as they were.
C1_AddReplacesCategory ==
    [][ (HandlerStep /\ last'.op = "add" /\ last'.outcome = "ok") =>
        LET c == last'.cat
            s1 == ingested'[c][1]
            s2 == ingested'[c][2]
        IN  /\ \A d \in Categories \ {c} : matchData'[d] = matchData[d]
            /\ Len(matchData'[c]) = Min(Len(s1), Len(s2))
            /\ \A k \in 1..Len(matchData'[c]) :
                  /\ HoldsPair(c, k, matchData'[c][k], s1, s2)
                  /\ matchData'[c][k].matchNumber = k ]_vars

\* A successful add replaced a non-empty sequence by one of another length
\* while another category held records.
C1_Witness ==
    /\ last.op = "add"
    /\ last.outcome = "ok"
    /\ last.before > 0
    /\ last.before # Len(matchData[last.cat])
    /\ \E d \in Categories \ {last.cat} : matchData[d] # <<>>

\* C2: a rejected add (an empty field, a score that is not a number or is
\* negative) and a rejected Analyze (no match, an empty or identical team name)
\* change none of the record sequences, the stored betting lines and the
\* stored last result.
C2_RejectedLeavesState ==
    [][ (HandlerStep /\ last'.outcome = "rejected") =>
        UNCHANGED <<matchData, totalLine, pointSpread, spreadDirection,
                    lastAnalysisResults>> ]_vars

\* An add was rejected for a negative score while its category held records
\* and a result was stored.
C2_Witness ==
    /\ last.op = "add"
    /\ last.outcome = "rejected"
    /\ last.toast = "Scores must be non-negative"
    /\ matchData[last.cat] # <<>>
    /\ lastAnalysisResults # None

\* C3: an analysis run that fails leaves the stored last result as it was.
C3_FailedRunKeepsResult ==
    [][ (HandlerStep /\ last'.op = "analyze" /\ last'.outcome = "failed") =>
        lastAnalysisResults' = lastAnalysisResults ]_vars

\* C4: a successful Analyze that directly follows a successful Analyze stores
\* the same result and leaves the record store as the first run left it.
C4_AnalyzeTwice ==
    [][ (HandlerStep /\ last.op = "analyze" /\ last.outcome = "ok"
                     /\ last'.op = "analyze" /\ last'.outcome = "ok") =>
        (lastAnalysisResults' = lastAnalysisResults /\ matchData' = matchData) ]_vars

\* Two successful runs in a row, with lines that the first run had to read
\* from the form.
C4_Witness ==
    /\ last.op = "analyze"
    /\ last.streak = 2
    /\ lastAnalysisResults # None
    /\ totalLine > 0
    /\ pointSpread > 0

\* C5: in every state every record has totalOverLine = null when the stored
\* totalLine is not > 0 and (totalScore > totalLine) otherwise, and spreadCover
\* = null when the stored pointSpread is not > 0 and otherwise its
\* classification under the stored pointSpread and spreadDirection.
C5_LineFlagsCurrent ==
    \A c \in Categories : \A k \in 1..Len(matchData[c]) :
        LET m == matchData[c][k]
            favorite == IF spreadDirection = "team1" THEN m.team1Score ELSE m.team2Score
            underdog == IF spreadDirection = "team1" THEN m.team2Score ELSE m.team1Score
        IN  /\ totalLine <= 0 => m.totalOverLine = None
            /\ totalLine > 0 => m.totalOverLine = Some(m.totalScore * 10 > totalLine)
            /\ pointSpread <= 0 => m.spreadCover = None
            /\ pointSpread > 0 =>
                  m.spreadCover =
                     Some(IF favorite * 10 - pointSpread > underdog * 10
                          THEN "Favorite Covered"
                          ELSE IF favorite * 10 - pointSpread < underdog * 10
                          THEN "Underdog Covered" ELSE "Push")

\* Records were added while both lines were set, next to records the last
\* Analyze had updated.
C5_Witness ==
    /\ totalLine > 0
    /\ pointSpread > 0
    /\ last.op = "add"
    /\ last.outcome = "ok"
    /\ \E d \in Categories \ {last.cat} : matchData[d] # <<>>

\* C6: an accepted add stores exactly min(len1, len2) records pairing the i-th
\* entries of the two lists, reports that count as added, and each record has
\* totalScore = team1Score + team2Score.
C6_AddStoresMinLength ==
    (last.op = "add" /\ last.outcome = "ok") =>
        LET c == last.cat
            s1 == ingested[c][1]
            s2 == ingested[c][2]
        IN  /\ Len(matchData[c]) = Min(Len(s1), Len(s2))
            /\ last.added = Min(Len(s1), Len(s2))
            /\ \A k \in 1..Len(matchData[c]) :
                  /\ HoldsPair(c, k, matchData[c][k], s1, s2)
                  /\ matchData[c][k].totalScore =
                        matchData[c][k].team1Score + matchData[c][k].team2Score

\* Lists of unequal length were added and more than one record was stored.
C6_Witness ==
    /\ last.op = "add"
    /\ last.outcome = "ok"
    /\ Len(ingested[last.cat][1]) > Len(ingested[last.cat][2])
    /\ Len(matchData[last.cat]) = 2
    /\ last.added = 2

C8_SortedInInsertionOrder ==
    \A c \in Categories :
        /\ (matchData[c] # <<>>) => (ingested[c] # <<>>)
        /\ \A k \in 1..Len(matchData[c]) :
              /\ matchData[c][k].matchNumber = k
              /\ HoldsPair(c, k, matchData[c][k], ingested[c][1], ingested[c][2])
              /\ k < Len(matchData[c]) =>
                    matchData[c][k].timestamp <= matchData[c][k + 1].timestamp

\* A category holds several records and the clock advanced inside its add loop.
C8_Witness ==
    \E c \in Categories :
        /\ Len(matchData[c]) >= 2
        /\ matchData[c][2].timestamp - matchData[c][1].timestamp = WEEK + 1

\* The three probabilities of a triple add up to 100.
SumsTo100(p) == p[1] + p[2] + p[3] = p[4]

\* Probability i of a triple is at least 5.
AtLeastFive(p, i) == p[i] >= (p[4] + 19) \div 20

\* C9: each of the three probabilities calculateModelV1WinProbabilities returns
\* is at least 5.
C9_ReturnedAtLeastFive ==
    probs # None => \A i \in 1..3 : AtLeastFive(probs[1].returned, i)

\* C10: the three probabilities add up to 100 after the first normalization,
\* after the 30% blend, after the floor at 5, and as returned.
C10_SumsTo100AtEveryStage ==
    probs # None =>
        /\ SumsTo100(probs[1].normalized)
        /\ SumsTo100(probs[1].adjusted)
        /\ SumsTo100(probs[1].floored)
        /\ SumsTo100(probs[1].returned)

\* C10, amended: the three probabilities add up to 100 after the first
\* normalization, after the 30% blend and as returned; after the floor at 5
\* they add up to at least 100, and to 100 exactly when the floor raised none.
C10_SumsTo100ExceptAfterFloor ==
    probs # None =>
        LET p == probs[1]
            raised == \E i \in 1..3 : ~AtLeastFive(p.adjusted, i)
        IN  /\ SumsTo100(p.normalized)
            /\ SumsTo100(p.adjusted)
            /\ SumsTo100(p.returned)
            /\ p.floored[1] + p.floored[2] + p.floored[3] >= p.floored[4]
            /\ SumsTo100(p.floored) <=> ~raised

\* The floor raised a probability of a triple that added up to 100.
C10_Witness ==
    /\ probs # None
    /\ \E i \in 1..3 : ~AtLeastFive(probs[1].adjusted, i)
    /\ SumsTo100(probs[1].adjusted)
    /\ SumsTo100(probs[1].returned)

\* C11: when the probability-implied winner (the first of team 1, team 2 and
\* the draw that has the highest probability) is team 1 or team 2 and the
\* winner the original margin implies (margin > 0.25 team 1, margin < -0.25
\* team 2, else draw) differs from it, the adjusted margin has magnitude
\* max(0.25, 0.8 x |original margin|), positive for team 1 and negative for
\* team 2.
C11_MarginFollowsWinner ==
    result # None =>
        LET p == args[1].probabilities
            m == args[1].projectedMargin
            magnitude == IF 8 * Abs(m) > 250 THEN 8 * Abs(m) ELSE 250
            team1Wins == p.team1WinProb >= p.team2WinProb /\ p.team1WinProb >= p.drawProb
            team2Wins == ~team1Wins /\ p.team2WinProb >= p.drawProb
        IN  /\ (team1Wins /\ m <= 25) => result[1].adjustedMargin = magnitude
            /\ (team2Wins /\ m >= -25) => result[1].adjustedMargin = -magnitude

\* Team 2 has the highest probability and the margin pointed to team 1 by more
\* than 0.25 / 0.8.
C11_Witness ==
    /\ result # None
    /\ args[1].probabilities.team2WinProb > args[1].probabilities.team1WinProb
    /\ args[1].probabilities.team2WinProb > args[1].probabilities.drawProb
    /\ args[1].projectedMargin = 100
    /\ result[1].adjustedMargin = -800

\* C12: whenever drawProb is the maximum of the three probabilities, the
\* adjusted margin satisfies |adjustedMargin| <= 0.2 x |original margin|.
C12_DrawMaxShrinksMargin ==
    result # None =>
        LET p == args[1].probabilities
        IN  (p.drawProb >= p.team1WinProb /\ p.drawProb >= p.team2WinProb) =>
                Abs(result[1].adjustedMargin) <= 2 * Abs(args[1].projectedMargin)

\* C12, amended: whenever drawProb is greater than both win probabilities, the
\* adjusted margin is 0.2 x the original margin.
C12_StrictDrawMaxShrinksMargin ==
    result # None =>
        LET p == args[1].probabilities
        IN  (p.drawProb > p.team1WinProb /\ p.drawProb > p.team2WinProb) =>
                /\ Abs(result[1].adjustedMargin) <= 2 * Abs(args[1].projectedMargin)
                /\ result[1].adjustedMargin * 5 = 10 * args[1].projectedMargin

\* The draw is the single most probable outcome and the margin was 1 goal.
C12_Witness ==
    /\ result # None
    /\ args[1].probabilities.drawProb > args[1].probabilities.team1WinProb
    /\ args[1].probabilities.drawProb > args[1].probabilities.team2WinProb
    /\ args[1].projectedMargin = 100
    /\ result[1].adjustedMargin = 20 * 10

C15_TableSumsTo100 ==
    result # None =>
        LET table == result[1]
            cellSum == SumCells(table.cells, Scores \X Scores)
            otherPart == IF table.other = None THEN 0 ELSE table.other[1]
        IN  /\ table.den > 0
            /\ cellSum + otherPart = table.den
            /\ (table.other # None) <=> (1000 * (table.den - cellSum) > table.den)

\* A table for two means of 2 goals, in which 1-1 carries 2 x 1.3 x 1.15
\* times the weight of 2-0 and 4-4 has a positive probability.
C15_Witness ==
    /\ result # None
    /\ args[1].projectedTotal = 4
    /\ args[1].projectedMargin = 0
    /\ result[1].cells[<<4, 4>>] > 0
    /\ result[1].cells[<<1, 1>>] = 2 * 1495 * (result[1].cells[<<2, 0>>] \div 1000)
    /\ result[1].other = None

\* The number of records in the three sequences.
TotalCount == GetTotalMatchCount(matchData)

\* Both names are non-empty after trimming and differ.
NamesValid ==
    /\ Trim(team1Name) # ""
    /\ Trim(team2Name) # ""
    /\ Trim(team1Name) # Trim(team2Name)

\* An Analyze click on 1 to 3 records with valid names.
LowDataAnalyze ==
    /\ HandlerStep
    /\ last'.op = "analyze"
    /\ TotalCount \in 1..3
    /\ NamesValid

\* C13: with 1 to 3 records and valid names Analyze is not a failure: the run
\* completes and stores a result whose dataQuality.dataSufficiency is false
\* (true exactly from 4 records on), with the predictions blended to the
\* neutral priors.
C13_LowDataAnalyzeCompletes ==
    [][ LowDataAnalyze =>
        /\ last'.outcome = "ok"
        /\ lastAnalysisResults' # None
        /\ ~lastAnalysisResults'[1].features.dataQuality.dataSufficiency
        /\ lastAnalysisResults'[1].reversion = 30 ]_vars

\* C13, amended: with 1 to 3 records and valid names Analyze asks the user to
\* confirm; a declined run stores nothing, and a confirmed run stores a result
\* whose dataQuality.dataSufficiency is false, with the predictions blended to
\* the neutral priors.  The stored dataSufficiency is true exactly from 4
\* records on.
C13_LowDataAnalyzeWhenConfirmed ==
    [][ /\ LowDataAnalyze =>
            /\ last'.outcome \in {"ok", "failed", "declined"}
            /\ last'.outcome = "declined" =>
                  lastAnalysisResults' = lastAnalysisResults
            /\ last'.outcome # "declined" =>
                  /\ lastAnalysisResults' # None
                  /\ ~lastAnalysisResults'[1].features.dataQuality.dataSufficiency
                  /\ lastAnalysisResults'[1].reversion = 30
        /\ (HandlerStep /\ last'.op = "analyze" /\ last'.outcome = "ok") =>
              /\ lastAnalysisResults'[1].features.dataQuality.dataSufficiency
                    <=> (TotalCount >= 4)
              /\ lastAnalysisResults'[1].reversion = 0 <=> (TotalCount >= 4) ]_vars

\* A confirmed Analyze completed on fewer than 4 records.
C13_Witness ==
    /\ last.op = "analyze"
    /\ last.outcome = "ok"
    /\ TotalCount \in 1..3
    /\ lastAnalysisResults # None
    /\ lastAnalysisResults[1].reversion = 30
    /\ lastAnalysisResults[1].features.dataQuality.totalMatches = TotalCount

\* C16: when an analysis runs with totalLine = 0, every record's totalOverLine
\* is null, the over/under edge is 0 and the total recommendation is 'NO LINE
\* SET'; with pointSpread = 0 the spread edge is 0 and the spread
\* recommendation is 'NO SPREAD SET'.
C16_UnsetLinesGiveNoRecommendation ==
    [][ (HandlerStep /\ last'.op = "analyze" /\ last'.outcome = "ok") =>
        /\ bettingPanel' # None
        /\ totalLine' = 0 =>
              /\ \A c \in Categories : \A k \in 1..Len(matchData'[c]) :
                    matchData'[c][k].totalOverLine = None
              /\ bettingPanel'[1].overUnderEdge = Some(0)
              /\ bettingPanel'[1].totalRecommendation = "NO LINE SET"
        /\ pointSpread' = 0 =>
              /\ bettingPanel'[1].spreadEdge = Some(0)
              /\ bettingPanel'[1].spreadRecommendation = "NO SPREAD SET" ]_vars

\* An analysis ran with the total line unset and a point spread set.
C16_Witness ==
    /\ last.op = "analyze"
    /\ last.outcome = "ok"
    /\ totalLine = 0
    /\ pointSpread > 0
    /\ TotalCount > 0
    /\ bettingPanel # None
    /\ bettingPanel[1].totalRecommendation = "NO LINE SET"
    /\ bettingPanel[1].spreadRecommendation # "NO SPREAD SET"

\* C19: an analysis run reads one snapshot: the result it stores is taken from
\* the three sequences and the configuration as they are when the run ends,
\* and the run changes no score, no timestamp, no sequence length and no team
\* setting.
C19_AnalysisReadsOneSnapshot ==
    [][ (HandlerStep /\ last'.op = "analyze" /\ last'.outcome \in {"ok", "failed"}) =>
        /\ lastAnalysisResults' # None
        /\ LET r == lastAnalysisResults'[1]
           IN  /\ r.computedFrom = matchData'
               /\ r.team1Name = team1Name' /\ r.team2Name = team2Name'
               /\ r.totalLine = totalLine' /\ r.pointSpread = pointSpread'
               /\ r.spreadDirection = spreadDirection'
               /\ r.matchImportance = matchImportance'
               /\ r.matchLocation = matchLocation'
               /\ r.features.dataQuality.h2hMatches = Len(matchData'["h2h"])
               /\ r.features.dataQuality.team1Matches = Len(matchData'["team1"])
               /\ r.features.dataQuality.team2Matches = Len(matchData'["team2"])
               /\ r.features.basicStats.totalLine = totalLine'
        /\ UNCHANGED <<team1Name, team2Name, team1Ranking, team2Ranking,
                       matchImportance, matchLocation>>
        /\ \A c \in Categories :
              /\ Len(matchData'[c]) = Len(matchData[c])
              /\ \A k \in 1..Len(matchData[c]) :
                    /\ matchData'[c][k].team1Score = matchData[c][k].team1Score
                    /\ matchData'[c][k].team2Score = matchData[c][k].team2Score
                    /\ matchData'[c][k].timestamp = matchData[c][k].timestamp ]_vars

\* An analysis of the sample data stored its result under the sample's lines.
C19_Witness ==
    /\ last.op = "analyze"
    /\ last.outcome = "ok"
    /\ Len(matchData["h2h"]) = 5
    /\ Len(matchData["team1"]) = 6
    /\ lastAnalysisResults # None
    /\ lastAnalysisResults[1].computedFrom = matchData
    /\ lastAnalysisResults[1].totalLine = 25

\* C20: a confirmed Reset leaves the three sequences empty and changes neither
\* the configuration (names, rankings, importance, location, betting lines)
\* nor the stored last result; a declined Reset changes nothing.
C20_ResetClearsRecordsOnly ==
    [][ (HandlerStep /\ last'.op = "clear") =>
        /\ UNCHANGED <<team1Name, team2Name, team1Ranking, team2Ranking,
                       matchImportance, matchLocation, totalLine, pointSpread,
                       spreadDirection, lastAnalysisResults>>
        /\ last'.outcome = "ok" => \A c \in Categories : matchData'[c] = <<>>
        /\ last'.outcome # "ok" => UNCHANGED <<matchData, lineForm, bettingPanel>> ]_vars

\* A confirmed Reset emptied a store that had records, with lines set and a
\* result stored.
C20_Witness ==
    /\ last.op = "clear"
    /\ last.outcome = "ok"
    /\ last.before > 0
    /\ TotalCount = 0
    /\ totalLine > 0
    /\ lastAnalysisResults # None

\* C17: with a point spread set, calculateSpreadRecommendation returns 'NO
\* CLEAR EDGE' whenever the projected margin is below 0.3 in magnitude,
\* whatever the spread edge.
C17_CloseMatchHasNoClearEdge ==
    (/\ args # None
     /\ result # None
     /\ args[1].globals.pointSpread > 0
     /\ Abs(args[1].projectedMargin) < 30)
        => result[1] = [label |-> "NO CLEAR EDGE"]

\* A margin of 0.29 with an edge above the strong threshold gave no clear edge,
\* and the same edge with a margin of 0.3 gives a strong recommendation.
C17_Witness ==
    /\ args # None
    /\ result # None
    /\ args[1].globals.pointSpread = 30
    /\ args[1].projectedMargin = 29
    /\ args[1].spreadEdge = 900
    /\ result[1].label = "NO CLEAR EDGE"
    /\ CalculateSpreadRecommendation(args[1].globals, 900, 30).label = "COVER"

\* The team has no record in h2h and none in its own series.
NoRecords(isTeam1) ==
    /\ matchData["h2h"] = <<>>
    /\ OwnSeries(matchData, isTeam1) = <<>>

\* The neutral defaults of the seven per-team extractors.
NeutralDefaults(f) ==
    /\ FracEq(f.avgScore, <<3, 2>>)
    /\ FracEq(f.avgConceded, <<3, 2>>)
    /\ FracEq(f.recentForm, <<1, 2>>)
    /\ FracEq(f.consistency, <<1, 2>>)
    /\ FracEq(f.momentumIndex, <<0, 1>>)
    /\ FracEq(f.homeAdvantage, <<1, 1>>)
    /\ FracEq(f.matchImportancePerformance, <<1, 1>>)

\* C18: for a team with no records in h2h and in its own series the extractors
\* return average scored 1.5, average conceded 1.5, recent form 0.5,
\* consistency 0.5, momentum 0, home advantage 1.0 and match-importance
\* performance 1.0; and the H2H advantage is 0 whenever h2h is empty.
C18_SparseDataGivesNeutralDefaults ==
    result # None =>
        /\ NoRecords(TRUE) => NeutralDefaults(result[1].team1)
        /\ NoRecords(FALSE) => NeutralDefaults(result[1].team2)
        /\ matchData["h2h"] = <<>> => FracEq(result[1].h2hAdvantage, <<0, 1>>)

\* The extractors ran on a store with three records of team 2 and none of
\* team 1: team 1 has the defaults, team 2 has computed values.
C18_Witness ==
    /\ result # None
    /\ NoRecords(TRUE)
    /\ Len(matchData["team2"]) = 3
    /\ NeutralDefaults(result[1].team1)
    /\ ~FracEq(result[1].team2.consistency, <<1, 2>>)
    /\ ~FracEq(result[1].team2.recentForm, <<1, 2>>)

\* The outcome labels of a sequence of records, in order.
OutcomeSequence(list) == [i \in 1..Len(list) |-> list[i].outcome]

\* The add of the sample data ran in this step.
SampleStep == HandlerStep /\ last'.op = "sample"

\* H2H advantage > 0 in the state the step ends in.
H2HAdvantagePositive == CalculateH2HAdvantage(matchData', Config')[1] > 0

\* C21: ingesting the H2H scores team1 = 1,2,1,2,0 and team2 = 1,2,0,1,1
\* yields the outcomes Draw, Draw, team1 Wins, team1 Wins, Draw (team 1 never
\* loses), and the H2H advantage of these records is positive.
C21_SampleOutcomesWithoutLoss ==
    [][ SampleStep =>
        /\ OutcomeSequence(matchData'["h2h"]) =
              <<"Draw", "Draw", team1Name' \o " Wins", team1Name' \o " Wins", "Draw">>
        /\ H2HAdvantagePositive ]_vars

\* C21, amended: the ingestion yields the outcomes Draw, Draw, team1 Wins,
\* team1 Wins, team2 Wins (the last match is 0-1), and the H2H advantage of
\* these records is still positive.
C21_SampleOutcomesWithLoss ==
    [][ SampleStep =>
        /\ OutcomeSequence(matchData'["h2h"]) =
              <<"Draw", "Draw", team1Name' \o " Wins", team1Name' \o " Wins",
                team2Name' \o " Wins">>
        /\ H2HAdvantagePositive ]_vars

\* The sample data is in the store: five h2h records, the last one 0-1.
C21_Witness ==
    /\ last.op = "sample"
    /\ Len(matchData["h2h"]) = 5
    /\ matchData["h2h"][5].team1Score = 0
    /\ matchData["h2h"][5].team2Score = 1
    /\ matchData["h2h"][5].outcome = "Manchester City Wins"
    /\ CalculateH2HAdvantage(matchData, Config)[1] > 0

\* The sum of the four averages the base total was taken of.
SumOfAverages ==
    FracAdd(FracAdd(args[1].team1AvgScore, args[1].team2AvgScore),
            FracAdd(args[1].team1AvgConceded, args[1].team2AvgConceded))

\* C22: the base of the projected total, before any blending or adjustment,
\* is the mean of the four averages: their sum divided by 4.
C22_BaseIsMeanOfAverages ==
    (args # None /\ result # None) =>
        FracEq(result[1], FracMul(SumOfAverages, <<1, 4>>))

\* C22, amended: the base of the projected total is the sum of the four
\* averages divided by 2, which is twice their mean.
C22_BaseIsHalfSumOfAverages ==
    (args # None /\ result # None) =>
        FracEq(result[1], FracMul(SumOfAverages, <<1, 2>>))

\* The base of four default averages of 1.5 is 3, not 1.5.
C22_Witness ==
    /\ args # None
    /\ result # None
    /\ \A k \in DOMAIN args[1] : args[1][k] = <<3, 2>>
    /\ result[1] = <<3, 1>>

\* The h2h record's label is the one its scores give under the current names.
LabelFollowsCurrentNames(m) ==
    /\ (m.outcome = team1Name \o " Wins") <=> (m.team1Score > m.team2Score)
    /\ (m.outcome = team2Name \o " Wins") <=> (m.team1Score < m.team2Score)
    /\ (m.outcome = "Draw") <=> (m.team1Score = m.team2Score)

\* team1Wins of calculateH2HAdvantage: the labels that are the current team 1's win.
Team1WinsByLabel ==
    Cardinality({k \in 1..Len(matchData["h2h"]) :
                    matchData["h2h"][k].outcome = team1Name \o " Wins"})

Team1WinsByScore ==
    Cardinality({k \in 1..Len(matchData["h2h"]) :
                    matchData["h2h"][k].team1Score > matchData["h2h"][k].team2Score})

\* C23: in every reachable state every h2h record's outcome label is
\* '<current team1Name> Wins' iff team1Score > team2Score, '<current team2Name>
\* Wins' iff team1Score < team2Score and 'Draw' iff the scores are equal, so
\* the win count taken from the labels equals the win count of the scores.
C23_LabelsFollowCurrentNames ==
    /\ \A k \in 1..Len(matchData["h2h"]) : LabelFollowsCurrentNames(matchData["h2h"][k])
    /\ Team1WinsByLabel = Team1WinsByScore

\* The recommendation names the underdog's side, or the favourite's.
NamesUnderdog(r) == r.label = "COVER" /\ r.sign = "+"
NamesFavorite(r) == r.label = "COVER" /\ r.sign = "-"

\* C24: for either spread direction with pointSpread > 0 and a reconciled
\* margin of magnitude at least 0.3: if the favoured team's projected winning
\* margin exceeds the point spread the recommendation never names the
\* underdog's side, and if the favoured team is projected to lose it never
\* names the favourite's side.
C24_RecommendationFollowsProjection ==
    (args # None /\ result # None) =>
        LET g == args[1].globals
            favoredMargin == IF g.spreadDirection = "team1"
                             THEN args[1].adjustedMargin ELSE -args[1].adjustedMargin
        IN  (g.pointSpread > 0 /\ Abs(args[1].adjustedMargin) >= 30) =>
               /\ favoredMargin > 10 * g.pointSpread =>
                     ~NamesUnderdog(result[1].spreadRecommendation)
               /\ favoredMargin < 0 =>
                     ~NamesFavorite(result[1].spreadRecommendation)

\* C27: for every totalLine > 0 calculateOverUnderRecommendation returns OVER
\* or STRONG OVER only when the edge is positive, UNDER or STRONG UNDER only
\* when the edge is negative, and 'NO CLEAR EDGE' for an edge of 0.
C27_RecommendationFollowsEdgeSign ==
    (args # None /\ result # None /\ args[1].totalLine > 0) =>
        /\ result[1].label = "OVER" => args[1].overUnderEdge > 0
        /\ result[1].label = "UNDER" => args[1].overUnderEdge < 0
        /\ args[1].overUnderEdge = 0 => result[1].label = "NO CLEAR EDGE"

\* The winner the reconciliation acted on, read from what it did to a margin
\* above 0.25: kept for team 1, times 0.2 for the draw, turned negative for
\* team 2.
WinnerActedOn ==
    IF result[1].adjustedMargin = 10 * args[1].projectedMargin THEN "team1"
    ELSE IF result[1].adjustedMargin = 2 * args[1].projectedMargin THEN "draw"
    ELSE "team2"

\* C25: the reconciliation picks the probability-implied winner with ties
\* resolved away from the draw: the draw only when drawProb is strictly
\* greater than both win probabilities; team 1 when team1WinProb equals the
\* maximum (also when another probability ties with it); otherwise team 2.
C25_TiesResolvedAwayFromDraw ==
    (args # None /\ result # None /\ args[1].projectedMargin > marginThreshold) =>
        LET p == args[1].probabilities
            team1Max == p.team1WinProb >= p.team2WinProb /\ p.team1WinProb >= p.drawProb
            drawStrict == p.drawProb > p.team1WinProb /\ p.drawProb > p.team2WinProb
        IN  /\ (WinnerActedOn = "draw") <=> drawStrict
            /\ (WinnerActedOn = "team1") <=> team1Max
            /\ (WinnerActedOn = "team2") <=> (~team1Max /\ ~drawStrict)
            /\ (WinnerActedOn = "team2") => p.team2WinProb >= p.drawProb

\* team1WinProb and drawProb tie for the maximum and the margin of 1 goal is
\* kept: the winner is team 1, not the draw.
C25_Witness ==
    /\ args # None
    /\ result # None
    /\ args[1].probabilities.team1WinProb = 40
    /\ args[1].probabilities.drawProb = 40
    /\ args[1].projectedMargin = 100
    /\ result[1].adjustedMargin = 1000

\* C26: after ensurePredictionConsistency the adjusted margin, classified as
\* team 1 (> 0.25), team 2 (< -0.25) or draw (otherwise), gives the
\* probability-implied winner, for every margin and probability triple; and
\* the returned probabilities equal the input probabilities.
C26_AdjustedMarginAgreesWithWinner ==
    (args # None /\ result # None) =>
        LET adjusted == result[1].adjustedMargin
            classified == IF adjusted > 10 * marginThreshold THEN "team1"
                          ELSE IF adjusted < -10 * marginThreshold THEN "team2"
                          ELSE "draw"
        IN  /\ classified = PredictedWinner(args[1].probabilities)
            /\ result[1].adjustedProbabilities = args[1].probabilities

\* C28: team2Trend is computed from team 2's own goals in every record of
\* h2h and of the team-2 series, that is from the team2Score slot in both
\* categories, as team1Trend is from team1Score.
C28_Team2TrendUsesOwnGoals ==
    (result # None /\ GetTotalMatchCount(matchData) >= 3) =>
        LET team2Matches == SortNewestFirst(matchData["h2h"] \o matchData["team2"])
            team1Matches == SortNewestFirst(matchData["h2h"] \o matchData["team1"])
        IN  /\ result[1].scoringTrends.team2Trend =
                  TeamTrend([i \in 1..Len(team2Matches) |-> team2Matches[i].team2Score])
            /\ result[1].scoringTrends.team1Trend =
                  TeamTrend([i \in 1..Len(team1Matches) |-> team1Matches[i].team1Score])

\* The number of zeros among the parsed scores of one input field.
ZerosIn(scores) == Cardinality({i \in 1..Len(scores) : scores[i].v = 0})

\* The opponents' scores a series was filled with, field by field.
FieldOf(category, field) ==
    IF ingested[category] = <<>> THEN <<>> ELSE ingested[category][field]

\* C29: the team-2 clean-sheet count equals the number of records of h2h and
\* of the team-2 series in which team 2's opponent scored 0 (team 1 in h2h,
\* the unnamed opponent in the team-2 series), and the team-1 count equals the
\* number of records of h2h and of the team-1 series in which team 1's
\* opponent scored 0.
C29_CleanSheetsCountOpponentZeros ==
    result # None =>
        /\ result[1].cleanSheetStats.team2CleanSheets =
              ZerosIn(FieldOf("h2h", 1)) + ZerosIn(FieldOf("team2", 2))
        /\ result[1].cleanSheetStats.team1CleanSheets =
              ZerosIn(FieldOf("h2h", 2)) + ZerosIn(FieldOf("team1", 2))

\* Team 2 scored in all three matches of its series and conceded in one: two
\* clean sheets there, and a third in the head-to-head match it won 1-0.
C29_Witness ==
    /\ result # None
    /\ Len(matchData["h2h"]) = 2
    /\ Len(matchData["team2"]) = 3
    /\ \A k \in 1..3 : matchData["team2"][k].team2Score > 0
    /\ ZerosIn(FieldOf("team2", 2)) = 2
    /\ ZerosIn(FieldOf("h2h", 1)) = 1
    /\ result[1].cleanSheetStats.team2CleanSheets = 3

\* The fraction lies in the range [0, 1].
InUnitRange(f) == f[1] >= 0 /\ f[1] <= f[2]

\* C30: calculateRecentForm returns a value in the range [0, 1] for every
\* record store.
C30_RecentFormInUnitRange ==
    result # None =>
        /\ InUnitRange(result[1].team1.recentForm)
        /\ InUnitRange(result[1].team2.recentForm)

====
